---- MODULE Spec2Model ----
(***************************************************************************)
(* A model of cheribuild's target dependency graph and execution           *)
(* scheduler (src/pycheribuild/targets.py): Target, MultiArchTarget,       *)
(* MultiArchTargetAlias and TargetManager.                                 *)
(*                                                                         *)
(* A Target is identified by its name (the registry key).  The project     *)
(* class of a target is a record of the class attributes the scheduler     *)
(* reads.  The project layer (SimpleProject and its subclasses) is not     *)
(* part of the sources modelled here; the few class methods of it that the *)
(* scheduler calls are modelled from the specification (section 6).        *)
(***************************************************************************)
EXTENDS Integers, Sequences, FiniteSets, TLC

VARIABLES
    projectClass,   \* target name -> the class attributes of its project class
    allTargets,     \* TargetManager._allTargets: name -> Target object (kind, arch, variants)
    config,         \* the CheriConfig values the scheduler reads
    guard,          \* Target.instantiating_targets_should_warn (class attribute)
    target,         \* name -> the mutable fields of the Target object
    run,            \* position of TargetManager.run(): pc, chosenTargets, index
    topo,           \* position of the generator TargetManager.topologicalSort: pc, data, waves
    hist,           \* observation counters: project instances, constructor runs, run() calls
    env,            \* os.environ and the setEnv block a Target method is in
    mtree,          \* MtreeFile._mtree: path -> the attributes of its MtreeEntry
    call            \* the last call made on the scheduler and what it returned or raised

vars == <<projectClass, allTargets, config, guard, target, run, topo, hist, env, mtree, call>>

None == "None"

----------------------------------------------------------------------------
(* Bounds of the model *)

\* longest list of explicitly requested targets
MaxExplicit == 3
\* most dependency edges of a drawn catalog
MaxEdges == 3
\* most targets carrying each class flag (is_sdk_target, dependenciesMustBeBuilt, isAlias)
MaxFlagged == 1
\* most project instances constructed for one target in one behaviour
MaxInstances == 2
\* most invocations of TargetManager.run() in one behaviour
MaxRuns == 2
\* most variants registered for an alias
MaxVariants == 2

----------------------------------------------------------------------------
(* Sequence helpers *)

InSeq(x, s) == \E i \in 1..Len(s) : s[i] = x

Range(s) == {s[i] : i \in 1..Len(s)}

Reverse(s) == [i \in 1..Len(s) |-> s[Len(s) + 1 - i]]

\* position of the first occurrence of x in s (0 when absent)
IndexOf(x, s) == IF InSeq(x, s) THEN CHOOSE i \in 1..Len(s) : s[i] = x /\ \A j \in 1..(i-1) : s[j] # x
                 ELSE 0

Count(x, s) == Cardinality({i \in 1..Len(s) : s[i] = x})

\* str.startswith
StartsWith(s, p) == Len(s) >= Len(p) /\ SubSeq(s, 1, Len(p)) = p

\* s holds sub as a substring
Contains(s, sub) == \E i \in 1..(Len(s) - Len(sub) + 1) : SubSeq(s, i, i + Len(sub) - 1) = sub

\* append the elements of s that r does not hold yet, in order
RECURSIVE AppendNew(_, _)
AppendNew(r, s) ==
    IF s = <<>> THEN r
    ELSE AppendNew(IF InSeq(Head(s), r) THEN r ELSE Append(r, Head(s)), Tail(s))

----------------------------------------------------------------------------
(* The project-class collaborator (specification section 6) *)

\* direct_dependencies(config): the declared dependencies, in declaration order
DirectDependencies(deps, n) == deps[n]

\* recursive_dependencies(config): every direct dependency followed by its own
\* recursive dependencies, each target once
RECURSIVE RecursiveDependencies(_, _)
RecursiveDependencies(deps, n) ==
    LET d == DirectDependencies(deps, n)
        F[i \in 0..Len(d)] ==
            IF i = 0 THEN <<>>
            ELSE AppendNew(AppendNew(F[i-1], <<d[i]>>), RecursiveDependencies(deps, d[i]))
    IN F[Len(d)]

\* _cached_dependencies(): the cached result of recursive_dependencies
CachedDependencies(cls, n) == cls[n].cached_deps

\* Target.get_dependencies
GetDependencies(cls, n) == cls[n].cached_deps

----------------------------------------------------------------------------
(* Target.__lt__ *)

Lt(cls, self, other) ==
    IF InSeq(self, CachedDependencies(cls, other)) THEN TRUE
    ELSE IF InSeq(other, CachedDependencies(cls, self)) THEN FALSE
    ELSE IF StartsWith(other, "run") /\ ~StartsWith(self, "run") THEN TRUE
    ELSE IF StartsWith(self, "run") THEN FALSE
    ELSE IF StartsWith(other, "disk-image") /\ ~StartsWith(self, "disk-image") THEN TRUE
    ELSE IF StartsWith(self, "disk-image") THEN FALSE
    ELSE FALSE

----------------------------------------------------------------------------
(* sorted(): CPython's list sort.  A list as short as the ones sorted here *)
(* is one run: count_run finds the initial ascending or strictly           *)
(* descending run (a descending run is reversed), binarysort inserts the   *)
(* rest.                                                                   *)

\* count_run: the length of the run at the start of s (Len(s) >= 2), and whether it descends
CountRun(cls, s) ==
    LET desc == Lt(cls, s[2], s[1])
        RECURSIVE Ext(_)
        Ext(i) == IF i = Len(s) THEN i
                  ELSE IF desc
                       THEN (IF Lt(cls, s[i+1], s[i]) THEN Ext(i+1) ELSE i)
                       ELSE (IF Lt(cls, s[i+1], s[i]) THEN i ELSE Ext(i+1))
    IN [n |-> Ext(2), descending |-> desc]

\* the slot the binary search of binarysort finds for pivot in the sorted prefix s[1..start-1]
RECURSIVE BinarySearch(_, _, _, _, _)
BinarySearch(cls, s, pivot, l, r) ==
    IF l >= r THEN l
    ELSE LET p == l + ((r - l) \div 2)
         IN IF Lt(cls, pivot, s[p]) THEN BinarySearch(cls, s, pivot, l, p)
            ELSE BinarySearch(cls, s, pivot, p + 1, r)

\* binarysort: s[1..start-1] is sorted; insert s[start], s[start+1], ... one by one
RECURSIVE BinarySort(_, _, _)
BinarySort(cls, s, start) ==
    IF start > Len(s) THEN s
    ELSE LET pivot == s[start]
             l == BinarySearch(cls, s, pivot, 1, start)
             moved == SubSeq(s, 1, l - 1) \o <<pivot>> \o SubSeq(s, l, start - 1)
                        \o SubSeq(s, start + 1, Len(s))
         IN BinarySort(cls, moved, start + 1)

Sorted(cls, s) ==
    IF Len(s) < 2 THEN s
    ELSE LET r == CountRun(cls, s)
             s1 == IF r.descending
                   THEN Reverse(SubSeq(s, 1, r.n)) \o SubSeq(s, r.n + 1, Len(s))
                   ELSE s
         IN BinarySort(cls, s1, r.n + 1)

\* the mutant: every occurrence is kept
RemoveDuplicates_KeepAll(s) == s

\* OrderedDict((x, True) for x in s).keys(): first occurrences, in order
RemoveDuplicates(s) == AppendNew(<<>>, s)

\* TargetManager.sort_in_dependency_order
SortInDependencyOrder(cls, targets) == RemoveDuplicates(Sorted(cls, targets))

----------------------------------------------------------------------------
(* TargetManager.get_all_targets *)

\* the mutant: includeDependencies adds the direct dependencies only
DepsToAdd_DirectOnly(cls, cfg, t) ==
    IF cfg.includeDependencies THEN DirectDependencies([n \in DOMAIN cls |-> cls[n].dependencies], t)
    ELSE IF cls[t].dependenciesMustBeBuilt THEN cls[t].cached_deps
    ELSE IF cls[t].isAlias THEN DirectDependencies([n \in DOMAIN cls |-> cls[n].dependencies], t)
    ELSE <<>>

\* the mutant: an alias adds its transitive dependencies
DepsToAdd_AliasClosure(cls, cfg, t) ==
    IF cfg.includeDependencies THEN cls[t].cached_deps
    ELSE IF cls[t].dependenciesMustBeBuilt THEN cls[t].cached_deps
    ELSE IF cls[t].isAlias THEN cls[t].cached_deps
    ELSE <<>>

\* the mutant: dependenciesMustBeBuilt is not consulted
DepsToAdd_FlagOnly(cls, cfg, t) ==
    IF cfg.includeDependencies THEN cls[t].cached_deps
    ELSE IF cls[t].isAlias THEN DirectDependencies([n \in DOMAIN cls |-> cls[n].dependencies], t)
    ELSE <<>>

\* the dependencies the policy adds for explicit target t
DepsToAdd(cls, cfg, t) ==
    IF cfg.includeDependencies THEN cls[t].cached_deps
    ELSE IF cls[t].dependenciesMustBeBuilt THEN cls[t].cached_deps
    ELSE IF cls[t].isAlias THEN DirectDependencies([n \in DOMAIN cls |-> cls[n].dependencies], t)
    ELSE <<>>

\* the --skip-sdk filter over the dependencies that are added
SkipSdkFilter(cls, cfg, ds) ==
    SelectSeq(ds, LAMBDA d : ~(cfg.skipSdk /\ cls[d].is_sdk_target))

\* chosen_targets before it is sorted
RECURSIVE ExpandTargets(_, _, _)
ExpandTargets(cls, cfg, explicit) ==
    IF explicit = <<>> THEN <<>>
    ELSE <<Head(explicit)>> \o SkipSdkFilter(cls, cfg, DepsToAdd(cls, cfg, Head(explicit)))
           \o ExpandTargets(cls, cfg, Tail(explicit))

GetAllTargets(cls, cfg, explicit) == SortInDependencyOrder(cls, ExpandTargets(cls, cfg, explicit))

----------------------------------------------------------------------------
(* Catalogs: the registered targets and their project classes *)

\* the targets a dependency set reaches
RECURSIVE ReachFrom(_, _, _)
ReachFrom(ds, frontier, seen) ==
    IF frontier \subseteq seen THEN seen
    ELSE LET new == frontier \ seen
         IN ReachFrom(ds, UNION {ds[m] : m \in new}, seen \cup new)

Descendants(ds, n) == ReachFrom(ds, ds[n], {})

Acyclic(ds) == \A n \in DOMAIN ds : n \notin Descendants(ds, n)

EdgeCount(ds) == Cardinality({e \in (DOMAIN ds) \X (DOMAIN ds) : e[2] \in ds[e[1]]})

\* the dependency graphs over names: no self dependency, at most MaxEdges edges
Graphs(names) ==
    {ds \in [names -> SUBSET names] :
        /\ \A n \in names : n \notin ds[n]
        /\ EdgeCount(ds) <= MaxEdges}

AcyclicGraphs(names) == {ds \in Graphs(names) : Acyclic(ds)}

\* a set listed in the order of a reference list
ListOf(S, order) == SelectSeq(order, LAMBDA x : x \in S)

Flagged(names) == {S \in SUBSET names : Cardinality(S) <= MaxFlagged}

\* the project classes of a catalog: dependencies declared in `order`.  The walk of
\* recursive_dependencies is finite on an acyclic catalog; for a cyclic one the
\* transitive dependency set is listed in `order`
Classes(ds, order, sdk, mustBuild, alias, arch) ==
    LET deps == [n \in DOMAIN ds |-> ListOf(ds[n], order)]
    IN [n \in DOMAIN ds |->
          [name |-> "Build_" \o n,
           dependencies |-> deps[n],
           cached_deps |-> IF Acyclic(ds) THEN RecursiveDependencies(deps, n)
                           ELSE ListOf(Descendants(ds, n), order),
           is_sdk_target |-> n \in sdk,
           dependenciesMustBeBuilt |-> n \in mustBuild,
           isAlias |-> n \in alias,
           default_architecture |-> arch[n]]]

PlainTarget == [kind |-> "Target", target_arch |-> None, derived_targets |-> <<>>]

\* every sequence of distinct names of length 1..k
RECURSIVE DistinctSeqs(_, _)
DistinctSeqs(names, k) ==
    IF k = 0 THEN {<<>>}
    ELSE LET shorter == DistinctSeqs(names, k - 1)
         IN shorter \cup {Append(s, n) : s \in shorter, n \in names} 

Requests(names) == {s \in DistinctSeqs(names, MaxExplicit) : s # <<>> /\ Cardinality(Range(s)) = Len(s)}

NoCall == [op |-> "none"]

FreshTarget == [project |-> None, completed |-> FALSE, tests_have_run |-> FALSE, creating_project |-> FALSE]

\* run() has not been called: no plan, nothing checked, executed or built.  The frame
\* of a run lists, in order, the targets checkSystemDeps and execute were called for
\* and those whose project.process() was invoked, and the call that ended the run
\* by raising, and the targets that were executed already when run() was called; the
\* frame and the configuration of a run are kept, with pc "idle", until the caller
\* makes the next call
IdleRun ==
    [pc |-> "idle", chosenTargets |-> <<>>, i |-> 0, before |-> {},
     checked |-> <<>>, executed |-> <<>>, built |-> <<>>, failed |-> None]

\* topologicalSort has not been called
IdleTopo == [pc |-> "idle", data |-> <<>>, waves |-> <<>>]

\* the observation counters, per target: the project instances ever constructed for
\* it, and the runs of its project constructor since its last reset; whether a plan
\* was ever resolved, and the calls of run()
NoHist(names) ==
    [instances |-> [n \in names |-> 0],
     constructed |-> [n \in names |-> 0],
     resolved |-> FALSE,
     runs |-> 0]

\* no setEnv block is open; the environment is not looked at
NoEnv == [pc |-> "idle"]

\* MtreeFile(): the manifest without an entry (write() sorts the paths, so the
\* order of insertion is not kept)
NoMtree == [k \in {} |-> None]

NoConfig == [includeDependencies |-> FALSE, skipSdk |-> FALSE, print_targets_only |-> FALSE, targets |-> <<>>]

----------------------------------------------------------------------------
(* Planning: get_all_targets applied to drawn catalogs, configurations and *)
(* request lists                                                           *)

PlanNames == {"a", "b", "disk-image", "run"}

PlanOrders == {<<"a", "b", "disk-image", "run">>, <<"run", "disk-image", "b", "a">>}

PlanConfig(incl, skip) ==
    [includeDependencies |-> incl, skipSdk |-> skip, print_targets_only |-> FALSE, targets |-> <<>>]

InitPlan ==
    /\ \E ds \in AcyclicGraphs(PlanNames), order \in PlanOrders :
          projectClass = Classes(ds, order, {}, {}, {}, [n \in PlanNames |-> None])
    /\ allTargets = [n \in PlanNames |-> PlainTarget]
    /\ \E incl \in BOOLEAN : config = PlanConfig(incl, FALSE)
    /\ guard = TRUE
    /\ target = [n \in PlanNames |-> FreshTarget]
    /\ run = IdleRun
    /\ topo = IdleTopo
    /\ env = NoEnv
    /\ mtree = NoMtree
    /\ hist = NoHist(DOMAIN projectClass)
    /\ call = NoCall

\* targetManager.get_all_targets(explicit, config)
GetAllTargetsCall(explicit) ==
    /\ call.op = "none"
    /\ call' = [op |-> "get_all_targets",
                explicit |-> explicit,
                expanded |-> ExpandTargets(projectClass, config, explicit),
                result |-> GetAllTargets(projectClass, config, explicit)]
    /\ UNCHANGED <<projectClass, allTargets, config, guard, target, run, topo, hist, env, mtree>>

\* t.get_dependencies(config)
GetDependenciesCall(n) ==
    /\ call.op = "none"
    /\ call' = [op |-> "get_dependencies", target |-> n, out |-> GetDependencies(projectClass, n)]
    /\ UNCHANGED <<projectClass, allTargets, config, guard, target, run, topo, hist, env, mtree>>

\* self < other, as sorted() asks it
LtCall(self, other) ==
    /\ call.op = "none"
    /\ call' = [op |-> "__lt__", self |-> self, other |-> other, out |-> Lt(projectClass, self, other)]
    /\ UNCHANGED <<projectClass, allTargets, config, guard, target, run, topo, hist, env, mtree>>

NextPlan ==
    \/ \E explicit \in Requests(DOMAIN projectClass) : GetAllTargetsCall(explicit)
    \/ \E n \in DOMAIN projectClass : GetDependenciesCall(n)
    \/ \E self \in DOMAIN projectClass, other \in DOMAIN projectClass : LtCall(self, other)

SpecPlan == InitPlan /\ [][NextPlan]_vars

\* the same operation over catalogs with class flags and both policy switches
PolicyNames == {"t", "d1", "d2"}

PolicyOrders == {<<"t", "d1", "d2">>, <<"d2", "d1", "t">>}

InitPolicy ==
    /\ \E ds \in AcyclicGraphs(PolicyNames), order \in PolicyOrders,
          sdk \in Flagged(PolicyNames), mustBuild \in Flagged(PolicyNames), alias \in Flagged(PolicyNames) :
          projectClass = Classes(ds, order, sdk, mustBuild, alias, [n \in PolicyNames |-> None])
    /\ allTargets = [n \in PolicyNames |-> PlainTarget]
    /\ \E incl \in BOOLEAN, skip \in BOOLEAN : config = PlanConfig(incl, skip)
    /\ guard = TRUE
    /\ target = [n \in PolicyNames |-> FreshTarget]
    /\ run = IdleRun
    /\ topo = IdleTopo
    /\ env = NoEnv
    /\ mtree = NoMtree
    /\ hist = NoHist(DOMAIN projectClass)
    /\ call = NoCall

SpecPolicy == InitPolicy /\ [][NextPlan]_vars

Planned == call.op = "get_all_targets"

\* x is positioned strictly before y in list s (both present)
Before(x, y, s) == InSeq(x, s) /\ InSeq(y, s) /\ IndexOf(x, s) < IndexOf(y, s)

----------------------------------------------------------------------------
(* Outcomes of a call: a returned value or a raised exception *)

Ret(v) == [kind |-> "return", value |-> v, exc |-> None, msg |-> ""]

Raise(e, m) == [kind |-> "raise", value |-> None, exc |-> e, msg |-> m]

\* what an operation on the targets leaves behind: the Target fields, the
\* observation counters and the outcome
After(tg, h, out) == [target |-> tg, hist |-> h, out |-> out]

\* the k-th project instance constructed for target n
Instance(n, k) == n \o "#" \o ToString(k)

----------------------------------------------------------------------------
(* Architectures and alias resolution *)

\* the members of the enum CrossCompileTarget, by value
Archs == {"native", "mips", "cheri", "riscv"}

\* str() of a CrossCompileTarget member
ArchStr(a) ==
    CASE a = "native" -> "CrossCompileTarget.NATIVE"
      [] a = "mips"   -> "CrossCompileTarget.MIPS"
      [] a = "cheri"  -> "CrossCompileTarget.CHERI"
      [] a = "riscv"  -> "CrossCompileTarget.RISCV"

\* projectClass.get_crosscompile_target(config): the default architecture the
\* project type declares, None when it declares none
GetCrosscompileTarget(cls, n) == cls[n].default_architecture

\* the mutant: the first registered variant is taken, whatever its architecture
GetRealTarget_FirstVariant(reg, cls, alias, cross_target) ==
    LET ct == IF cross_target = None THEN GetCrosscompileTarget(cls, alias) ELSE cross_target
        derived == reg[alias].derived_targets
    IN IF ct = None THEN Raise("AssertionError", "")
       ELSE IF derived # <<>> THEN Ret(derived[1])
       ELSE Raise("LookupError", "Could not find target for " \o ArchStr(ct))

\* MultiArchTargetAlias.get_real_target
GetRealTarget(reg, cls, alias, cross_target) ==
    LET ct == IF cross_target = None THEN GetCrosscompileTarget(cls, alias) ELSE cross_target
        derived == reg[alias].derived_targets
        hits == {i \in 1..Len(derived) : reg[derived[i]].target_arch = ct}
    IN IF ct = None THEN Raise("AssertionError", "")
       ELSE IF hits # {} THEN Ret(derived[CHOOSE i \in hits : \A j \in hits : i <= j])
       ELSE Raise("LookupError", "Could not find target for " \o ArchStr(ct))

IsAlias(reg, n) == reg[n].kind = "MultiArchTargetAlias"

\* the mutant: the registered Target is returned as it is (get_target_raw)
GetTarget_Raw(reg, cls, name, arch) ==
    IF name \notin DOMAIN reg THEN Raise("KeyError", name) ELSE Ret(name)

\* TargetManager.get_target
GetTarget(reg, cls, name, arch) ==
    IF name \notin DOMAIN reg THEN Raise("KeyError", name)
    ELSE IF IsAlias(reg, name)
         THEN GetRealTarget(reg, cls, name,
                            IF arch = None /\ cls[name].default_architecture # None
                            THEN cls[name].default_architecture ELSE arch)
         ELSE Ret(name)

----------------------------------------------------------------------------
(* Target: the project instance *)

\* the mutant: the creation-in-progress marker is not consulted
CreateProject_Retry(tg, h, g, n, ctorOk) ==
    IF g THEN After(tg, h, Raise("RuntimeError", "Instantiating target " \o n \o " before run()!"))
    ELSE LET tg1 == [tg EXCEPT ![n].creating_project = TRUE]
             h1 == [h EXCEPT !.constructed[n] = @ + 1]
         IN IF ctorOk
            THEN After(tg1, [h1 EXCEPT !.instances[n] = @ + 1], Ret(Instance(n, h.instances[n] + 1)))
            ELSE After(tg1, h1, Raise("ProjectError", "constructor"))

\* the mutant: the instantiation guard is not consulted
CreateProject_Unguarded(tg, h, g, n, ctorOk) ==
    IF tg[n].creating_project THEN After(tg, h, Raise("AssertionError", ""))
    ELSE LET tg1 == [tg EXCEPT ![n].creating_project = TRUE]
             h1 == [h EXCEPT !.constructed[n] = @ + 1]
         IN IF ctorOk
            THEN After(tg1, [h1 EXCEPT !.instances[n] = @ + 1], Ret(Instance(n, h.instances[n] + 1)))
            ELSE After(tg1, h1, Raise("ProjectError", "constructor"))

\* Target.create_project followed by the project constructor (_create_project);
\* ctorOk says whether the constructor returns
CreateProject(tg, h, g, n, ctorOk) ==
    IF tg[n].creating_project THEN After(tg, h, Raise("AssertionError", ""))
    ELSE IF g THEN After(tg, h, Raise("RuntimeError", "Instantiating target " \o n \o " before run()!"))
    ELSE LET tg1 == [tg EXCEPT ![n].creating_project = TRUE]
             h1 == [h EXCEPT !.constructed[n] = @ + 1]
         IN IF ctorOk
            THEN After(tg1, [h1 EXCEPT !.instances[n] = @ + 1], Ret(Instance(n, h.instances[n] + 1)))
            ELSE After(tg1, h1, Raise("ProjectError", "constructor"))

\* the mutant: the cached instance is not consulted and the constructor is called directly
GetOrCreateProject_NoCache(tg, h, g, n, ctorOk) ==
    IF g THEN After(tg, h, Raise("RuntimeError", "Instantiating target " \o n \o " before run()!"))
    ELSE IF ctorOk
         THEN After([tg EXCEPT ![n].project = Instance(n, h.instances[n] + 1), ![n].creating_project = TRUE],
                    [h EXCEPT !.constructed[n] = @ + 1, !.instances[n] = @ + 1],
                    Ret(Instance(n, h.instances[n] + 1)))
         ELSE After(tg, [h EXCEPT !.constructed[n] = @ + 1], Raise("ProjectError", "constructor"))

\* Target.get_or_create_project (the architecture hint is not read)
GetOrCreateProject(tg, h, g, n, ctorOk) ==
    IF tg[n].project = None
    THEN LET c == CreateProject(tg, h, g, n, ctorOk)
         IN IF c.out.kind = "return"
            THEN After([c.target EXCEPT ![n].project = c.out.value], c.hist, c.out)
            ELSE c
    ELSE After(tg, h, Ret(tg[n].project))

\* the mutant: the system dependencies are checked without a project instance
CheckSystemDeps_NoProject(tg, h, g, n, ctorOk, checkOk) ==
    IF tg[n].completed THEN After(tg, h, Ret(None))
    ELSE IF checkOk THEN After(tg, h, Ret(None))
    ELSE After(tg, h, Raise("ProjectError", "checkSystemDependencies"))

\* Target.checkSystemDeps; checkOk says whether project.checkSystemDependencies() returns
CheckSystemDeps(tg, h, g, n, ctorOk, checkOk) ==
    IF tg[n].completed THEN After(tg, h, Ret(None))
    ELSE LET p == GetOrCreateProject(tg, h, g, n, ctorOk)
         IN IF p.out.kind = "raise" THEN p
            ELSE IF checkOk THEN After(p.target, p.hist, Ret(None))
            ELSE After(p.target, p.hist, Raise("ProjectError", "checkSystemDependencies"))

AlreadyExecuted == "warning: has already been executed!"

\* the outcomes of execute that went through project.process(): it returned, or it raised
BuildInvoked(out) == out = Ret(None) \/ out = Raise("ProjectError", "process")

\* the mutant: the target is marked executed before the build is invoked
Execute_MarksFirst(tg, h, n, buildOk) ==
    IF tg[n].completed THEN After(tg, h, Ret(AlreadyExecuted))
    ELSE IF tg[n].project = None
    THEN After(tg, h, Raise("AssertionError", "Should have been initialized in checkSystemDeps()"))
    ELSE IF buildOk THEN After([tg EXCEPT ![n].completed = TRUE], h, Ret(None))
    ELSE After([tg EXCEPT ![n].completed = TRUE], h, Raise("ProjectError", "process"))

\* the mutant: executing an executed target is an error
Execute_Strict(tg, h, n, buildOk) ==
    IF tg[n].completed THEN After(tg, h, Raise("RuntimeError", AlreadyExecuted))
    ELSE IF tg[n].project = None
    THEN After(tg, h, Raise("AssertionError", "Should have been initialized in checkSystemDeps()"))
    ELSE IF buildOk THEN After([tg EXCEPT ![n].completed = TRUE], h, Ret(None))
    ELSE After(tg, h, Raise("ProjectError", "process"))

\* the mutant: a build that returns marks the tests as not run
Execute_ClearsTests(tg, h, n, buildOk) ==
    IF tg[n].completed THEN After(tg, h, Ret(AlreadyExecuted))
    ELSE IF tg[n].project = None
    THEN After(tg, h, Raise("AssertionError", "Should have been initialized in checkSystemDeps()"))
    ELSE IF buildOk THEN After([tg EXCEPT ![n].completed = TRUE, ![n].tests_have_run = FALSE], h, Ret(None))
    ELSE After(tg, h, Raise("ProjectError", "process"))

\* the mutant: the completed flag is not consulted
Execute_Again(tg, h, n, buildOk) ==
    IF tg[n].project = None
    THEN After(tg, h, Raise("AssertionError", "Should have been initialized in checkSystemDeps()"))
    ELSE IF buildOk THEN After([tg EXCEPT ![n].completed = TRUE], h, Ret(None))
    ELSE After(tg, h, Raise("ProjectError", "process"))

\* Target.execute; buildOk says whether project.process() returns
Execute(tg, h, n, buildOk) ==
    IF tg[n].completed THEN After(tg, h, Ret(AlreadyExecuted))
    ELSE IF tg[n].project = None
    THEN After(tg, h, Raise("AssertionError", "Should have been initialized in checkSystemDeps()"))
    ELSE IF buildOk THEN After([tg EXCEPT ![n].completed = TRUE], h, Ret(None))
    ELSE After(tg, h, Raise("ProjectError", "process"))

\* the mutant: the tests_have_run flag is not consulted
RunTests_Again(tg, h, g, n, ctorOk, testOk) ==
    LET p == GetOrCreateProject(tg, h, g, n, ctorOk)
    IN IF p.out.kind = "raise" THEN p
       ELSE IF testOk THEN After([p.target EXCEPT ![n].tests_have_run = TRUE], p.hist, Ret(None))
       ELSE After(p.target, p.hist, Raise("ProjectError", "run_tests"))

\* Target.run_tests; testOk says whether project.run_tests() returns
RunTests(tg, h, g, n, ctorOk, testOk) ==
    IF tg[n].tests_have_run THEN After(tg, h, Ret(AlreadyExecuted))
    ELSE LET p == GetOrCreateProject(tg, h, g, n, ctorOk)
         IN IF p.out.kind = "raise" THEN p
            ELSE IF testOk THEN After([p.target EXCEPT ![n].tests_have_run = TRUE], p.hist, Ret(None))
            ELSE After(p.target, p.hist, Raise("ProjectError", "run_tests"))

\* the mutant: the cached project instance survives the reset
Reset_KeepProject(tg, n) ==
    [tg EXCEPT ![n] = [FreshTarget EXCEPT !.project = tg[n].project]]

\* Target.reset
Reset(tg, n) == [tg EXCEPT ![n] = FreshTarget]

\* TargetManager.reset: reset() on every registered Target
RECURSIVE ResetAll(_, _)
ResetAll(tg, names) ==
    IF names = {} THEN tg
    ELSE LET n == CHOOSE x \in names : TRUE
         IN ResetAll(Reset(tg, n), names \ {n})

----------------------------------------------------------------------------
(* MultiArchTargetAlias: every operation goes to the variant get_real_target picks *)

\* the mutant: an alias runs the operation on itself, like a plain Target
Dispatch_Own(reg, cls, tg, h, g, n, op, hint, ctorOk, collabOk) ==
    CASE op = "get_or_create_project" -> GetOrCreateProject(tg, h, g, n, ctorOk)
      [] op = "checkSystemDeps" -> CheckSystemDeps(tg, h, g, n, ctorOk, collabOk)
      [] op = "execute" -> Execute(tg, h, n, collabOk)
      [] op = "run_tests" -> RunTests(tg, h, g, n, ctorOk, collabOk)

\* the operation `op` on target n, dispatched on the kind of n
Dispatch(reg, cls, tg, h, g, n, op, hint, ctorOk, collabOk) ==
    LET on(m) == CASE op = "get_or_create_project" -> GetOrCreateProject(tg, h, g, m, ctorOk)
                   [] op = "checkSystemDeps" -> CheckSystemDeps(tg, h, g, m, ctorOk, collabOk)
                   [] op = "execute" -> Execute(tg, h, m, collabOk)
                   [] op = "run_tests" -> RunTests(tg, h, g, m, ctorOk, collabOk)
    IN IF IsAlias(reg, n)
       THEN IF op = "get_or_create_project" /\ reg[n].derived_targets = <<>>
            THEN After(tg, h, Raise("AssertionError", "derived targets must not be empty"))
            ELSE LET r == GetRealTarget(reg, cls, n, IF op = "get_or_create_project" THEN hint ELSE None)
                 IN IF r.kind = "raise" THEN After(tg, h, r) ELSE on(r.value)
       ELSE on(n)

----------------------------------------------------------------------------
(* TargetManager.get_all_chosen_targets *)

\* the registered names in registration order (the order of the dict _allTargets)
RegistrationOrder ==
    <<"a", "b", "c", "lib", "lib-native", "lib-mips", "lib-cheri", "lib-riscv",
      "disk-image", "run", "t", "d1", "d2">>

TargetNames(reg) == ListOf(DOMAIN reg, RegistrationOrder)

RECURSIVE Join(_, _)
Join(sep, names) ==
    IF names = <<>> THEN ""
    ELSE IF Len(names) = 1 THEN names[1]
    ELSE names[1] \o sep \o Join(sep, Tail(names))

\* the first declared dependency that is not registered: <<target, dependency>>, or <<>>
RECURSIVE FirstInvalidDependency(_, _, _)
FirstInvalidDependency(reg, cls, names) ==
    IF names = <<>> THEN <<>>
    ELSE LET bad == SelectSeq(cls[Head(names)].cached_deps, LAMBDA d : d \notin DOMAIN reg)
         IN IF bad # <<>> THEN <<Head(names), bad[1]>>
            ELSE FirstInvalidDependency(reg, cls, Tail(names))

\* the loop over config.targets: the resolved targets, or the first failure
RECURSIVE ResolveNames(_, _, _)
ResolveNames(reg, cls, names) ==
    IF names = <<>> THEN Ret(<<>>)
    ELSE IF Head(names) \notin DOMAIN reg
    THEN Raise("SystemExit", "Target " \o Head(names) \o " does not exist. Valid choices are "
                              \o Join(",", TargetNames(reg)))
    ELSE LET t == GetTarget(reg, cls, Head(names), None)
         IN IF t.kind = "raise" THEN t
            ELSE LET rest == ResolveNames(reg, cls, Tail(names))
                 IN IF rest.kind = "raise" THEN rest
                    ELSE Ret(<<t.value>> \o rest.value)

\* the mutant: the dependencies of the registered targets are not validated
GetAllChosenTargets_NoValidation(reg, cls, cfg) ==
    LET chosen == ResolveNames(reg, cls, cfg.targets)
    IN IF chosen.kind = "raise" THEN chosen
       ELSE Ret(GetAllTargets(cls, cfg, chosen.value))

\* the mutant: requested names that are not registered are passed over
GetAllChosenTargets_SkipUnknown(reg, cls, cfg) ==
    LET bad == FirstInvalidDependency(reg, cls, TargetNames(reg))
    IN IF bad # <<>>
       THEN Raise("SystemExit", "Invalid dependency " \o bad[2] \o " for " \o cls[bad[1]].name)
       ELSE LET chosen == ResolveNames(reg, cls, SelectSeq(cfg.targets, LAMBDA n : n \in DOMAIN reg))
            IN IF chosen.kind = "raise" THEN chosen
               ELSE Ret(GetAllTargets(cls, cfg, chosen.value))

\* the plan, or the failure that ends get_all_chosen_targets
GetAllChosenTargets(reg, cls, cfg) ==
    LET bad == FirstInvalidDependency(reg, cls, TargetNames(reg))
    IN IF bad # <<>>
       THEN Raise("SystemExit", "Invalid dependency " \o bad[2] \o " for " \o cls[bad[1]].name)
       ELSE LET chosen == ResolveNames(reg, cls, cfg.targets)
            IN IF chosen.kind = "raise" THEN chosen
               ELSE Ret(GetAllTargets(cls, cfg, chosen.value))

----------------------------------------------------------------------------
(* The scheduler at work.  Three registries: two plain targets, "a"         *)
(* depending on "b"; the alias "lib" with its variants for native and       *)
(* cheri; and a catalog whose target "a" has a dependency not registered.   *)
(* Calls are made on the targets from outside run(), and run() steps        *)
(* through its plan.                                                        *)

PlainRegistry == [n \in {"a", "b"} |-> PlainTarget]

PlainClasses ==
    Classes([n \in {"a", "b"} |-> IF n = "a" THEN {"b"} ELSE {}], <<"a", "b">>, {}, {}, {},
            [n \in {"a", "b"} |-> None])

AliasNames == {"lib", "lib-native", "lib-cheri"}

AliasRegistry ==
    [n \in AliasNames |->
        CASE n = "lib" -> [kind |-> "MultiArchTargetAlias", target_arch |-> None,
                           derived_targets |-> <<"lib-native", "lib-cheri">>]
          [] n = "lib-native" -> [kind |-> "MultiArchTarget", target_arch |-> "native", derived_targets |-> <<>>]
          [] n = "lib-cheri" -> [kind |-> "MultiArchTarget", target_arch |-> "cheri", derived_targets |-> <<>>]]

\* the cheri variant declares the alias itself as a dependency, which resolves to the
\* native variant: a plan with dependencies can hold the alias next to that variant
AliasClasses ==
    Classes([n \in AliasNames |-> IF n = "lib-cheri" THEN {"lib"} ELSE {}],
            <<"lib", "lib-native", "lib-cheri">>, {}, {}, {},
            [n \in AliasNames |-> IF n = "lib-cheri" THEN "cheri" ELSE "native"])

\* a catalog with a dangling dependency: "a" depends on "b", which is not registered
DanglingRegistry == [n \in {"a", "c"} |-> PlainTarget]

DanglingClasses ==
    Classes([n \in {"a", "b", "c"} |-> IF n = "a" THEN {"b"} ELSE {}], <<"a", "b", "c">>, {}, {}, {},
            [n \in {"a", "b", "c"} |-> None])

\* the target lists a run is asked for
RunRequests(reg) ==
    IF "lib" \in DOMAIN reg
    THEN {<<"lib">>, <<"lib-cheri", "lib">>}
    ELSE {<<"a">>, <<"b", "a">>, <<"a", "nosuch">>}

\* the architecture hints of a caller
Hints == {None, "native", "cheri", "mips"}

Init ==
    /\ \/ projectClass = PlainClasses /\ allTargets = PlainRegistry
       \/ projectClass = AliasClasses /\ allTargets = AliasRegistry
       \/ projectClass = DanglingClasses /\ allTargets = DanglingRegistry
    /\ config = NoConfig
    /\ guard = TRUE
    /\ target = [n \in DOMAIN allTargets |-> FreshTarget]
    /\ run = IdleRun
    /\ topo = IdleTopo
    /\ env = NoEnv
    /\ mtree = NoMtree
    /\ hist = NoHist(DOMAIN allTargets)
    /\ call = NoCall

\* run() is not on the stack: the caller may call the targets
Outside == run.pc = "idle"

InBounds(h) == \A n \in DOMAIN h.instances : h.instances[n] <= MaxInstances

\* the record of a call: the operation, the target it was called on, the
\* architecture passed, and the outcome
CalledWith(op, n, arch, out) == [op |-> op, target |-> n, arch |-> arch, out |-> out]

Called(op, n, out) == CalledWith(op, n, None, out)

\* a call of `op` on target n from outside run()
Apply(op, n, hint, ctorOk, collabOk) ==
    LET r == Dispatch(allTargets, projectClass, target, hist, guard, n, op, hint, ctorOk, collabOk)
    IN /\ Outside
       /\ InBounds(r.hist)
       /\ target' = r.target
       /\ hist' = r.hist
       /\ call' = CalledWith(op, n, hint, r.out)
       /\ run' = IdleRun
       /\ config' = NoConfig
       /\ UNCHANGED <<projectClass, allTargets, guard, topo, env, mtree>>

\* target.get_or_create_project(hint, config)
GetOrCreateProjectCall(n, hint, ctorOk) == Apply("get_or_create_project", n, hint, ctorOk, TRUE)

\* target.checkSystemDeps(config)
CheckSystemDepsCall(n, ctorOk, checkOk) == Apply("checkSystemDeps", n, None, ctorOk, checkOk)

\* target.execute(config)
ExecuteCall(n, buildOk) == Apply("execute", n, None, TRUE, buildOk)

\* target.run_tests(config)
RunTestsCall(n, ctorOk, testOk) == Apply("run_tests", n, None, ctorOk, testOk)

\* target.reset()
ResetCall(n) ==
    /\ Outside
    /\ target' = Reset(target, n)
    /\ hist' = [hist EXCEPT !.constructed[n] = 0]
    /\ call' = Called("reset", n, Ret(None))
    /\ run' = IdleRun
    /\ config' = NoConfig
    /\ UNCHANGED <<projectClass, allTargets, guard, topo, env, mtree>>

\* the mutant: resetting the manager arms the instantiation guard again
ResetAllCall_Rearm ==
    /\ Outside
    /\ target' = ResetAll(target, DOMAIN allTargets)
    /\ hist' = [hist EXCEPT !.constructed = [n \in DOMAIN @ |-> 0]]
    /\ call' = Called("reset_all", None, Ret(None))
    /\ run' = IdleRun
    /\ config' = NoConfig
    /\ guard' = TRUE
    /\ UNCHANGED <<projectClass, allTargets, topo, env, mtree>>

\* targetManager.reset()
ResetAllCall ==
    /\ Outside
    /\ target' = ResetAll(target, DOMAIN allTargets)
    /\ hist' = [hist EXCEPT !.constructed = [n \in DOMAIN @ |-> 0]]
    /\ call' = Called("reset_all", None, Ret(None))
    /\ run' = IdleRun
    /\ config' = NoConfig
    /\ UNCHANGED <<projectClass, allTargets, guard, topo, env, mtree>>

\* run(config) is called: get_all_chosen_targets resolves the plan and releases the
\* instantiation guard, or ends the run.  A run ends (run.pc is "idle" again) with
\* the first call that raises, or after the last planned target
RunResolve(targets, dry, incl) ==
    /\ Outside
    /\ hist.runs < MaxRuns
    /\ LET cfg == [NoConfig EXCEPT !.targets = targets, !.print_targets_only = dry,
                                   !.includeDependencies = incl]
           r == GetAllChosenTargets(allTargets, projectClass, cfg)
       IN IF r.kind = "raise"
          THEN /\ call' = Called("get_all_chosen_targets", targets, r)
               /\ hist' = [hist EXCEPT !.runs = @ + 1]
               /\ config' = cfg
               /\ run' = [IdleRun EXCEPT !.failed = "get_all_chosen_targets"]
               /\ UNCHANGED guard
          ELSE /\ call' = Called("get_all_chosen_targets", targets, Ret(r.value))
               /\ hist' = [hist EXCEPT !.runs = @ + 1, !.resolved = TRUE]
               /\ guard' = FALSE
               /\ config' = cfg
               /\ run' = [IdleRun EXCEPT !.pc = "check", !.chosenTargets = r.value, !.i = 1,
                                          !.before = {n \in DOMAIN target : target[n].completed}]
    /\ UNCHANGED <<projectClass, allTargets, target, topo, env, mtree>>

\* the mutant: the plan is walked from its end
NextPlanned_Reversed(f) == f.chosenTargets[Len(f.chosenTargets) - f.i + 1]

\* for target in chosenTargets: the target the loop is at
NextPlanned(f) == f.chosenTargets[f.i]

\* the mutant: one loop, a target is executed right after its check
AfterCheck_Interleaved(f) == [f EXCEPT !.pc = "execute"]

\* the first loop goes on to the next target; after the last one the second loop starts
AfterCheck(f) ==
    IF f.i < Len(f.chosenTargets) THEN [f EXCEPT !.i = @ + 1]
    ELSE [f EXCEPT !.pc = "execute", !.i = 1]

\* the mutant: a failure of execute is swallowed and the loop goes on
AfterExecute_KeepGoing(f, out) ==
    IF f.i = Len(f.chosenTargets) THEN [f EXCEPT !.pc = "idle"]
    ELSE [f EXCEPT !.i = @ + 1]

\* the second loop: an exception of execute leaves run(); after the last target run() returns
AfterExecute(f, out) ==
    IF out.kind = "raise" THEN [f EXCEPT !.pc = "idle", !.failed = "execute"]
    ELSE IF f.i = Len(f.chosenTargets) THEN [f EXCEPT !.pc = "idle"]
    ELSE [f EXCEPT !.i = @ + 1]

\* the report of a planned target in print_targets_only mode
\* a list of names as print() shows it
ListRepr(names) ==
    "[" \o Join(", ", [j \in 1..Len(names) |-> "'" \o names[j] \o "'"]) \o "]"

Report(cls, n) ==
    "Will build target " \o n \o "\n    Dependencies for " \o n \o " are "
        \o ListRepr(cls[n].cached_deps)

\* the mode in which run() only reports the plan
DryRun_Never(cfg) == FALSE

DryRun(cfg) == cfg.print_targets_only

\* the first loop of run(): target.checkSystemDeps(config) for the next planned target
RunCheckStep(ctorOk, checkOk) ==
    /\ run.pc = "check"
    /\ LET n == NextPlanned(run)
           r == Dispatch(allTargets, projectClass, target, hist, guard, n, "checkSystemDeps", None, ctorOk, checkOk)
       IN /\ InBounds(r.hist)
          /\ target' = r.target
          /\ hist' = r.hist
          /\ call' = Called("checkSystemDeps", n, r.out)
          /\ run' = LET f == [run EXCEPT !.checked = Append(@, n)]
                    IN IF r.out.kind = "raise"
                       THEN [f EXCEPT !.pc = "idle", !.failed = "checkSystemDeps"]
                       ELSE AfterCheck(f)
    /\ UNCHANGED <<projectClass, allTargets, config, guard, topo, env, mtree>>

\* the Target whose methods run when those of n are called without an architecture:
\* the variant of an alias, n itself otherwise
Concrete(reg, cls, n) ==
    IF IsAlias(reg, n) THEN GetRealTarget(reg, cls, n, None).value ELSE n

\* the second loop of run(): report the next planned target (print_targets_only) or
\* target.execute(config); run() returns after the last one
RunExecuteStep(buildOk) ==
    /\ run.pc = "execute"
    /\ LET n == NextPlanned(run)
           r == IF DryRun(config)
                THEN After(target, hist, Ret(Report(projectClass, n)))
                ELSE Dispatch(allTargets, projectClass, target, hist, guard, n, "execute", None, TRUE, buildOk)
       IN /\ InBounds(r.hist)
          /\ target' = r.target
          /\ hist' = r.hist
          /\ call' = Called(IF DryRun(config) THEN "report" ELSE "execute", n, r.out)
          /\ run' = LET f == IF DryRun(config) THEN run
                             ELSE [run EXCEPT !.executed = Append(@, n),
                                              !.built = IF BuildInvoked(r.out)
                                                        THEN Append(@, Concrete(allTargets, projectClass, n))
                                                        ELSE @]
                    IN AfterExecute(f, r.out)
    /\ UNCHANGED <<projectClass, allTargets, config, guard, topo, env, mtree>>

Next ==
    \/ \E n \in DOMAIN target, hint \in Hints, ctorOk \in BOOLEAN : GetOrCreateProjectCall(n, hint, ctorOk)
    \/ \E n \in DOMAIN target, ctorOk \in BOOLEAN, checkOk \in BOOLEAN : CheckSystemDepsCall(n, ctorOk, checkOk)
    \/ \E n \in DOMAIN target, buildOk \in BOOLEAN : ExecuteCall(n, buildOk)
    \/ \E n \in DOMAIN target, ctorOk \in BOOLEAN, testOk \in BOOLEAN : RunTestsCall(n, ctorOk, testOk)
    \/ \E n \in DOMAIN target : ResetCall(n)
    \/ ResetAllCall
    \/ \E targets \in RunRequests(allTargets), dry \in BOOLEAN, incl \in BOOLEAN : RunResolve(targets, dry, incl)
    \/ \E ctorOk \in BOOLEAN, checkOk \in BOOLEAN : RunCheckStep(ctorOk, checkOk)
    \/ \E buildOk \in BOOLEAN : RunExecuteStep(buildOk)

Spec == Init /\ [][Next]_vars

----------------------------------------------------------------------------
(* Alias resolution: an alias "lib" with drawn variants and a drawn default *)
(* architecture; get_target and get_real_target are called on it.           *)

VariantName(a) == "lib-" \o a

\* the registry of the alias "lib" with one variant per architecture of archs, in order
ResolveRegistry(archs) ==
    LET variants == [i \in 1..Len(archs) |-> VariantName(archs[i])]
    IN [n \in {"lib"} \cup Range(variants) |->
          IF n = "lib"
          THEN [kind |-> "MultiArchTargetAlias", target_arch |-> None, derived_targets |-> variants]
          ELSE [kind |-> "MultiArchTarget",
                target_arch |-> CHOOSE a \in Range(archs) : VariantName(a) = n,
                derived_targets |-> <<>>]]

ResolveClasses(reg, default) ==
    Classes([n \in DOMAIN reg |-> {}], RegistrationOrder, {}, {}, {},
            [n \in DOMAIN reg |-> IF n = "lib" THEN default ELSE reg[n].target_arch])

InitResolve ==
    /\ \E archs \in DistinctSeqs(Archs, MaxVariants), default \in Archs \cup {None} :
          /\ Cardinality(Range(archs)) = Len(archs)
          /\ allTargets = ResolveRegistry(archs)
          /\ projectClass = ResolveClasses(ResolveRegistry(archs), default)
    /\ config = NoConfig
    /\ guard = TRUE
    /\ target = [n \in DOMAIN allTargets |-> FreshTarget]
    /\ run = IdleRun
    /\ topo = IdleTopo
    /\ env = NoEnv
    /\ mtree = NoMtree
    /\ hist = NoHist(DOMAIN allTargets)
    /\ call = NoCall

\* targetManager.get_target(name, arch, config)
GetTargetCall(name, arch) ==
    /\ call' = CalledWith("get_target", name, arch, GetTarget(allTargets, projectClass, name, arch))
    /\ UNCHANGED <<projectClass, allTargets, config, guard, target, run, topo, hist, env, mtree>>

\* alias.get_real_target(cross_target, config)
GetRealTargetCall(alias, cross_target) ==
    /\ IsAlias(allTargets, alias)
    /\ call' = CalledWith("get_real_target", alias, cross_target,
                          GetRealTarget(allTargets, projectClass, alias, cross_target))
    /\ UNCHANGED <<projectClass, allTargets, config, guard, target, run, topo, hist, env, mtree>>

NextResolve ==
    \/ \E name \in DOMAIN allTargets \cup {"nosuch"}, arch \in Archs \cup {None} : GetTargetCall(name, arch)
    \/ \E alias \in DOMAIN allTargets, arch \in Archs \cup {None} : GetRealTargetCall(alias, arch)

SpecResolve == InitResolve /\ [][NextResolve]_vars

----------------------------------------------------------------------------
(* TargetManager.topologicalSort, a generator: the call builds `data`, and  *)
(* every turn of its loop yields one wave or ends it.  The values of `data` *)
(* are sets of Target objects, its keys and the waves are names.            *)

TopoNames == {"a", "b", "c"}

\* a Target object as a set element (Target defines neither __eq__ nor __hash__:
\* it equals no name)
TargetObject(n) == "<Target " \o n \o ">"

\* projectClass.allDependencyNames(): the names of the transitive dependencies
AllDependencyNames(cls, n) == Range(cls[n].cached_deps)

\* sorted() of a set of names
SortedNames(S) == ListOf(S, <<"a", "b", "c">>)

InitTopo ==
    /\ \E ds \in Graphs(TopoNames) :
          projectClass = Classes(ds, <<"a", "b", "c">>, {}, {}, {}, [n \in TopoNames |-> None])
    /\ allTargets = [n \in TopoNames |-> PlainTarget]
    /\ config = NoConfig
    /\ guard = TRUE
    /\ target = [n \in TopoNames |-> FreshTarget]
    /\ run = IdleRun
    /\ topo = IdleTopo
    /\ env = NoEnv
    /\ mtree = NoMtree
    /\ hist = NoHist(TopoNames)
    /\ call = NoCall

\* topologicalSort(targets) up to its loop: `data` is built; a dependency that is
\* no key of it is looked up in _allTargets and its attribute `dependencies` read,
\* which a Target does not have
TopologicalSortCall(targets) ==
    /\ topo.pc = "idle"
    /\ LET data == [n \in Range(targets) |->
                        {TargetObject(d) : d \in Range(GetDependencies(projectClass, n))}]
           possiblyMissingDependencies == UNION {AllDependencyNames(projectClass, n) : n \in Range(targets)}
       IN IF possiblyMissingDependencies \subseteq DOMAIN data
          THEN /\ topo' = [pc |-> "loop", data |-> data, waves |-> <<>>]
               /\ call' = CalledWith("topologicalSort", targets, None, Ret(None))
          ELSE /\ topo' = [pc |-> "done", data |-> data, waves |-> <<>>]
               /\ call' = CalledWith("topologicalSort", targets, None,
                                     Raise("AttributeError", "'Target' object has no attribute 'dependencies'"))
    /\ UNCHANGED <<projectClass, allTargets, config, guard, target, run, hist, env, mtree>>

\* one turn of the loop: the items without dependencies are yielded as a wave and
\* taken out of `data`; when there are none the loop ends and `data` must be empty
TopoWave ==
    /\ topo.pc = "loop"
    /\ LET ordered == {item \in DOMAIN topo.data : topo.data[item] = {}}
       IN IF ordered = {}
          THEN /\ topo' = [topo EXCEPT !.pc = "done"]
               /\ call' = [call EXCEPT !.out = IF DOMAIN topo.data = {} THEN Ret(topo.waves)
                                                ELSE Raise("AssertionError", "A cyclic dependency exists amongst")]
          ELSE /\ topo' = [topo EXCEPT !.waves = Append(@, SortedNames(ordered)),
                                       !.data = [item \in DOMAIN topo.data \ ordered |->
                                                    topo.data[item] \ ordered]]
               /\ UNCHANGED call
    /\ UNCHANGED <<projectClass, allTargets, config, guard, target, run, hist, env, mtree>>

NextTopo ==
    \/ \E targets \in Requests(TopoNames) : TopologicalSortCall(targets)
    \/ TopoWave

SpecTopo == InitTopo /\ [][NextTopo]_vars

----------------------------------------------------------------------------
(* Registration: targets are added to an empty TargetManager *)

RegisterNames == {"a", "b", "c"}

\* the Target objects that are registered: a plain Target, or a MultiArchTarget of an architecture
TargetObjects ==
    {PlainTarget} \cup
    {[kind |-> "MultiArchTarget", target_arch |-> a, derived_targets |-> <<>>] : a \in Archs}

\* TargetManager.addTarget: self._allTargets[target.name] = target
AddTarget(reg, name, tgt) ==
    [n \in DOMAIN reg \cup {name} |-> IF n = name THEN tgt ELSE reg[n]]

InitRegister ==
    /\ allTargets = <<>>
    /\ projectClass = <<>>
    /\ config = NoConfig
    /\ guard = TRUE
    /\ target = <<>>
    /\ run = IdleRun
    /\ topo = IdleTopo
    /\ env = NoEnv
    /\ mtree = NoMtree
    /\ hist = NoHist({})
    /\ call = NoCall

\* targetManager.addTarget(tgt), tgt a new Target object named `name`
AddTargetCall(name, tgt) ==
    /\ allTargets' = AddTarget(allTargets, name, tgt)
    /\ target' = [n \in DOMAIN allTargets \cup {name} |-> FreshTarget]
    /\ call' = Called("addTarget", name, Ret(None))
    /\ UNCHANGED <<projectClass, config, guard, run, topo, hist, env, mtree>>

NextRegister == \E name \in RegisterNames, tgt \in TargetObjects : AddTargetCall(name, tgt)

SpecRegister == InitRegister /\ [][NextRegister]_vars

----------------------------------------------------------------------------
(* The environment overlay: checkSystemDeps, execute and run_tests call the  *)
(* project inside a setEnv block.  A call is followed from the entry of the  *)
(* block to its exit; the calls are made once a plan has been resolved.      *)

\* the variables of os.environ that are followed
EnvKeys == {"PATH", "CLANG_FORCE_COLOR_DIAGNOSTICS"}

\* the environments of the process when the scheduler starts (None: the variable is not set)
StartEnvirons ==
    {[k \in EnvKeys |-> IF k = "PATH" THEN path ELSE colour] :
        path \in {"/bin", "/usr/bin"}, colour \in {None, "never", "always"}}

\* config.dollarPathWithOtherTools: the tools directory put before the PATH of the process
DollarPathWithOtherTools(environ) == "/tools/bin:" \o environ["PATH"]

EnvConfig(environ, colour) ==
    [includeDependencies |-> FALSE, skipSdk |-> FALSE, print_targets_only |-> FALSE, targets |-> <<>>,
     dollarPathWithOtherTools |-> DollarPathWithOtherTools(environ), clang_colour_diags |-> colour]

\* the project method a Target method calls inside its setEnv block
Collaborator(op) ==
    CASE op = "checkSystemDeps" -> "checkSystemDependencies"
      [] op = "execute" -> "process"
      [] op = "run_tests" -> "run_tests"

\* the variables a Target method overlays: new_env
NewEnv(op, cfg) ==
    IF op # "checkSystemDeps" /\ cfg.clang_colour_diags
    THEN [k \in EnvKeys |-> IF k = "PATH" THEN cfg.dollarPathWithOtherTools ELSE "always"]
    ELSE [k \in {"PATH"} |-> cfg.dollarPathWithOtherTools]

\* setEnv(**new_env), on entry: the prior values are kept and the new ones set
SetEnvEnter(environ, new_env) ==
    [changedValues |-> [k \in DOMAIN new_env |-> environ[k]],
     environ |-> [k \in DOMAIN environ |-> IF k \in DOMAIN new_env THEN new_env[k] ELSE environ[k]]]

\* the mutant: on exit only the variables that had a value are put back
SetEnvExit_SetOnly(environ, changedValues) ==
    [k \in DOMAIN environ |->
        IF k \in DOMAIN changedValues /\ changedValues[k] # None THEN changedValues[k] ELSE environ[k]]

\* setEnv, on exit (the block returned or raised): every overlaid variable gets its
\* prior value, or is unset again
SetEnvExit(environ, changedValues) ==
    [k \in DOMAIN environ |-> IF k \in DOMAIN changedValues THEN changedValues[k] ELSE environ[k]]

\* a Target method is inside its setEnv block, the project method has not returned yet
Pending == [kind |-> "pending", value |-> None, exc |-> None, msg |-> ""]

InitEnv ==
    /\ projectClass = PlainClasses
    /\ allTargets = PlainRegistry
    /\ guard = FALSE
    /\ target = [n \in DOMAIN allTargets |-> FreshTarget]
    /\ run = IdleRun
    /\ topo = IdleTopo
    /\ hist = [NoHist(DOMAIN allTargets) EXCEPT !.resolved = TRUE]
    /\ mtree = NoMtree
    /\ call = NoCall
    /\ \E environ \in StartEnvirons, colour \in BOOLEAN :
          /\ config = EnvConfig(environ, colour)
          /\ env = [pc |-> "idle", environ |-> environ, atStart |-> environ,
                    op |-> None, target |-> None, changedValues |-> <<>>]

\* the method `op` on target n up to its setEnv block, with the project method failing:
\* the block is reached exactly when the failure is the one of the project method
UpToBlock(op, n, ctorOk) ==
    Dispatch(allTargets, projectClass, target, hist, guard, n, op, None, ctorOk, FALSE)

ReachesBlock(op, n, ctorOk) ==
    UpToBlock(op, n, ctorOk).out = Raise("ProjectError", Collaborator(op))

\* a call that returns or raises before its setEnv block
CallWithoutBlock(op, n, ctorOk) ==
    /\ env.pc = "idle"
    /\ ~ReachesBlock(op, n, ctorOk)
    /\ LET r == UpToBlock(op, n, ctorOk)
       IN /\ InBounds(r.hist)
          /\ target' = r.target
          /\ hist' = r.hist
          /\ call' = Called(op, n, r.out)
    /\ UNCHANGED <<projectClass, allTargets, config, guard, run, topo, env, mtree>>

\* a call enters its setEnv block: the overlay is applied
EnterBlock(op, n, ctorOk) ==
    /\ env.pc = "idle"
    /\ ReachesBlock(op, n, ctorOk)
    /\ LET r == UpToBlock(op, n, ctorOk)
           e == SetEnvEnter(env.environ, NewEnv(op, config))
       IN /\ InBounds(r.hist)
          /\ target' = r.target
          /\ hist' = r.hist
          /\ call' = Called(op, n, Pending)
          /\ env' = [env EXCEPT !.pc = "inside", !.op = op, !.target = n,
                                !.environ = e.environ, !.changedValues = e.changedValues]
    /\ UNCHANGED <<projectClass, allTargets, config, guard, run, topo, mtree>>

\* the project method returns or raises: the block is left and the method ends
LeaveBlock(collabOk) ==
    /\ env.pc = "inside"
    /\ LET r == Dispatch(allTargets, projectClass, target, hist, guard, env.target, env.op, None, TRUE, collabOk)
       IN /\ target' = r.target
          /\ hist' = r.hist
          /\ call' = Called(env.op, env.target, r.out)
          /\ env' = [env EXCEPT !.pc = "idle", !.op = None, !.target = None,
                                !.environ = SetEnvExit(env.environ, env.changedValues),
                                !.changedValues = <<>>]
    /\ UNCHANGED <<projectClass, allTargets, config, guard, run, topo, mtree>>

EnvOps == {"checkSystemDeps", "execute", "run_tests"}

NextEnv ==
    \/ \E op \in EnvOps, n \in DOMAIN target, ctorOk \in BOOLEAN : CallWithoutBlock(op, n, ctorOk)
    \/ \E op \in EnvOps, n \in DOMAIN target, ctorOk \in BOOLEAN : EnterBlock(op, n, ctorOk)
    \/ \E collabOk \in BOOLEAN : LeaveBlock(collabOk)

SpecEnv == InitEnv /\ [][NextEnv]_vars

(***************************************************************************)
(* MtreeFile (mtree.py): the manifest of a disk image.  Paths are strings, *)
(* parsed as pathlib and os.path parse them; the files handed to add_file  *)
(* live in a small file system.                                            *)
(***************************************************************************)

EndsWith(s, p) == Len(s) >= Len(p) /\ SubSeq(s, Len(s) - Len(p) + 1, Len(s)) = p

\* str.rstrip("/")
RECURSIVE RStrip(_)
RStrip(s) == IF EndsWith(s, "/") THEN RStrip(SubSeq(s, 1, Len(s) - 1)) ELSE s

\* str.split("/"), one character at a time: cur is the component being read
RECURSIVE SplitFrom(_, _, _)
SplitFrom(s, cur, acc) ==
    IF s = "" THEN Append(acc, cur)
    ELSE LET c == SubSeq(s, 1, 1)
             rest == SubSeq(s, 2, Len(s))
         IN IF c = "/" THEN SplitFrom(rest, "", Append(acc, cur))
                       ELSE SplitFrom(rest, cur \o c, acc)

SplitPath(s) == SplitFrom(s, "", <<>>)

\* the loop of posixpath.normpath over the components of a relative path
RECURSIVE NormComps(_, _)
NormComps(comps, new) ==
    IF comps = <<>> THEN new
    ELSE LET comp == Head(comps)
         IN IF comp \in {"", "."} THEN NormComps(Tail(comps), new)
            ELSE IF comp # ".." \/ new = <<>> \/ new[Len(new)] = ".."
                 THEN NormComps(Tail(comps), Append(new, comp))
                 ELSE NormComps(Tail(comps), SubSeq(new, 1, Len(new) - 1))

\* os.path.normpath of a relative path
Normpath(path) ==
    LET joined == Join("/", NormComps(SplitPath(path), <<>>))
    IN IF joined = "" THEN "." ELSE joined

\* PurePosixPath(path).parts without the root
Parts(path) == SelectSeq(SplitPath(path), LAMBDA c : c \notin {"", "."})

\* str() of the PurePosixPath with these parts
PathStr(absolute, parts) ==
    IF absolute THEN "/" \o Join("/", parts)
    ELSE IF parts = <<>> THEN "." ELSE Join("/", parts)

\* str(Path(path).parent)
PathParent(path) ==
    LET parts == Parts(path)
    IN PathStr(StartsWith(path, "/"),
               IF parts = <<>> THEN parts ELSE SubSeq(parts, 1, Len(parts) - 1))

\* Path(path).name
PathName(path) ==
    LET parts == Parts(path)
    IN IF parts = <<>> THEN "" ELSE parts[Len(parts)]

\* the files and directories add_file is pointed at: lstat().st_mode as the
\* octal string, and the target of a symbolic link
FileSystem ==
    [p \in {"/", "/out", "/out/a", "/out/a/f", "/out/a/l", "/out/.ssh", "/out/.ssh/key"} |->
        CASE p = "/out/a"        -> [mode |-> "0750", link |-> None]
          [] p = "/out/a/f"      -> [mode |-> "0644", link |-> None]
          [] p = "/out/a/l"      -> [mode |-> "0777", link |-> "f"]
          [] p = "/out/.ssh/key" -> [mode |-> "0644", link |-> None]
          [] OTHER               -> [mode |-> "0755", link |-> None]]

\* MtreeFile.infer_mode_string: a path that cannot be stat'ed gets the default
InferModeString(path, should_be_dir) ==
    LET result == IF path \in DOMAIN FileSystem THEN FileSystem[path].mode
                  ELSE IF should_be_dir THEN "0755" ELSE "0644"
    IN IF PathName(path) = ".ssh" /\ result # "0700" THEN "0700"
       ELSE IF PathName(PathParent(path)) = ".ssh" /\ ~EndsWith(PathName(path), ".pub")
               /\ result # "0600" THEN "0600"
       ELSE result

\* the assertion of MtreeFile._ensure_mtree_mode_fmt on a mode string
ModeFmtOk(mode) == StartsWith(mode, "0")

\* the assertions of MtreeFile._ensure_mtree_path_fmt
PathFmtOk(path) == ~EndsWith(path, "/") /\ path # ""

\* MtreeFile._ensure_mtree_path_fmt
EnsureMtreePathFmt(path) == IF path # "." THEN "./" \o Normpath(path) ELSE path

\* the attributes of a directory entry
DirAttribs(mode, uname, gname) ==
    [type |-> "dir", uname |-> uname, gname |-> gname, mode |-> mode,
     contents |-> None, link |-> None]

\* the attributes of the entry add_file makes for `file`
FileAttribs(file, mode, uname, gname) ==
    IF file \in DOMAIN FileSystem /\ FileSystem[file].link # None
    THEN [type |-> "link", uname |-> uname, gname |-> gname, mode |-> mode,
          contents |-> None, link |-> FileSystem[file].link]
    ELSE [type |-> "file", uname |-> uname, gname |-> gname, mode |-> mode,
          contents |-> file, link |-> None]

\* self._mtree[mtree_path] = MtreeEntry(mtree_path, attribs)
Put(m, mtree_path, attribs) ==
    [k \in DOMAIN m \cup {mtree_path} |-> IF k = mtree_path THEN attribs ELSE m[k]]

Done(m) == [kind |-> "return", m |-> m]

Failed(m) == [kind |-> "raise", m |-> m]

\* add_dir that returns early only on a directory entry
AlreadyPresent_DirOnly(m, mtree_path) == mtree_path \in DOMAIN m /\ m[mtree_path].type = "dir"

\* `if mtree_path in self._mtree` of add_dir
AlreadyPresent(m, mtree_path) == mtree_path \in DOMAIN m

\* add_dir that never adds the parent
NeedsParent_Never(parent, path) == FALSE

\* `if parent != path` of add_dir
NeedsParent(parent, path) == parent # path

\* MtreeFile.add_dir: the manifest it leaves, and whether an assertion failed
RECURSIVE AddDir(_, _, _, _, _, _)
AddDir(m, path_arg, mode_arg, uname, gname, reference_dir) ==
    IF StartsWith(path_arg, "/") THEN Failed(m)
    ELSE LET path == RStrip(path_arg)
         IN IF ~PathFmtOk(path) THEN Failed(m)
            ELSE LET mtree_path == EnsureMtreePathFmt(path)
                     mode == IF mode_arg # None THEN mode_arg
                             ELSE IF reference_dir = None \/ mtree_path = "." THEN "0755"
                             ELSE InferModeString(reference_dir, TRUE)
                     parent == PathParent(path)
                     up == IF ~NeedsParent(parent, path) THEN Done(m)
                           ELSE IF reference_dir # None
                           THEN AddDir(m, parent, None, uname, gname, PathParent(reference_dir))
                           ELSE AddDir(m, parent, mode, uname, gname, None)
                 IN IF AlreadyPresent(m, mtree_path) THEN Done(m)
                    ELSE IF ~ModeFmtOk(mode) THEN Failed(m)
                    ELSE IF up.kind = "raise" THEN up
                    ELSE Done(Put(up.m, mtree_path, DirAttribs(mode, uname, gname)))

\* shlex.quote(contents_path) == contents_path, for the characters of the
\* file names used here
Quotable(contents_path) == ~Contains(contents_path, " ")

\* `self._mtree[mtree_path] = MtreeEntry(mtree_path, attribs)` of add_file
PutFile(m, mtree_path, attribs) == Put(m, mtree_path, attribs)

\* MtreeFile.add_file
AddFile(m, file, path_in_image, mode_arg, uname, gname, parent_dir_mode) ==
    IF \/ StartsWith(path_in_image, "/")
       \/ StartsWith(path_in_image, "./")
       \/ StartsWith(path_in_image, "..")
    THEN Failed(m)
    ELSE LET mode == IF mode_arg = None THEN InferModeString(file, FALSE) ELSE mode_arg
         IN IF ~ModeFmtOk(mode) \/ ~PathFmtOk(path_in_image) THEN Failed(m)
            ELSE LET mtree_path == EnsureMtreePathFmt(path_in_image)
                     up == AddDir(m, PathParent(path_in_image), parent_dir_mode, uname, gname,
                                  PathParent(file))
                     attribs == FileAttribs(file, mode, uname, gname)
                 IN IF mtree_path = "." THEN Failed(m)
                    ELSE IF up.kind = "raise" THEN up
                    ELSE IF attribs.type = "file" /\ ~Quotable(file) THEN Failed(up.m)
                    ELSE Done(PutFile(up.m, mtree_path, attribs))

\* the paths add_dir is called with
DirPaths == {".", "a/b", "a//b/", "a/../b", ""}

\* the image paths add_file is called with
ImagePaths == {"a/b", "a/c/f", "./a"}

\* the files add_file is called with: a link, a key whose mode is corrected,
\* a name that needs quoting
Files == {"/out/a/l", "/out/.ssh/key", "/out/a b"}

\* the mode and owner add_dir is called with: the defaults, or both given
DirArgs == {[mode |-> None, uname |-> "root"], [mode |-> "0700", uname |-> "www"]}

\* the path a call was made with, as the key of its entry
KeyOf(c) == EnsureMtreePathFmt(RStrip(c.target))

InitMtree ==
    /\ allTargets = <<>>
    /\ projectClass = <<>>
    /\ config = NoConfig
    /\ guard = TRUE
    /\ target = <<>>
    /\ run = IdleRun
    /\ topo = IdleTopo
    /\ hist = NoHist({})
    /\ env = NoEnv
    /\ mtree = NoMtree
    /\ call = NoCall

\* mtree.add_dir(path, mode, uname)
AddDirCall(path, mode, uname) ==
    LET r == AddDir(mtree, path, mode, uname, "wheel", None)
    IN /\ mtree' = r.m
       /\ call' = CalledWith("add_dir", path, None,
                             IF r.kind = "return" THEN Ret(None) ELSE Raise("AssertionError", ""))
       /\ UNCHANGED <<projectClass, allTargets, config, guard, target, run, topo, hist, env>>

\* mtree.add_file(file, path_in_image)
AddFileCall(file, path_in_image) ==
    LET r == AddFile(mtree, file, path_in_image, None, "root", "wheel", None)
    IN /\ mtree' = r.m
       /\ call' = CalledWith("add_file", path_in_image, file,
                             IF r.kind = "return" THEN Ret(None) ELSE Raise("AssertionError", ""))
       /\ UNCHANGED <<projectClass, allTargets, config, guard, target, run, topo, hist, env>>

NextMtree ==
    \/ \E path \in DirPaths, args \in DirArgs : AddDirCall(path, args.mode, args.uname)
    \/ \E file \in Files, path \in ImagePaths : AddFileCall(file, path)

SpecMtree == InitMtree /\ [][NextMtree]_vars

\* the declared dependency sets of the catalog
DepSets == [n \in DOMAIN projectClass |-> Range(projectClass[n].dependencies)]

\* the declared dependency lists of the catalog
DepSeqs == [n \in DOMAIN projectClass |-> projectClass[n].dependencies]

\* every target t transitively depends on, computed over the declared dependency sets
TransitiveDeps(t) == Descendants(DepSets, t)

\* the targets t reaches through dependency paths that hold no SDK-class target
NonSdkDeps(t) ==
    Descendants([n \in DOMAIN projectClass |->
                    {d \in DepSets[n] : ~projectClass[d].is_sdk_target}], t)

\* the concrete target a call lands on: the variant of an alias, the target itself otherwise
RealTarget(c) ==
    IF c.target \notin DOMAIN allTargets THEN None
    ELSE IF IsAlias(allTargets, c.target)
    THEN GetRealTarget(allTargets, projectClass, c.target, c.arch).value
    ELSE c.target

Resets == {"reset", "reset_all"}

Creating == {"get_or_create_project", "checkSystemDeps", "run_tests"}

----------------------------------------------------------------------------
(* C2 as stated: of two execute() calls in a row on a target the later one  *)
(* only emits the warning and changes no state; the build is invoked once,  *)
(* by the first call.                                                       *)
C2_LaterExecuteOnlyWarns ==
    [][(call.op = "execute" /\ call'.op = "execute" /\ call'.target = call.target)
          => (call'.out = Ret(AlreadyExecuted) /\ target' = target)]_vars

(* C2 as amended: an execute() call on a target whose build has returned    *)
(* (no reset since) only emits the warning, invokes no build and changes no *)
(* state; a build that returns marks the target executed, and only reset()  *)
(* clears that mark.                                                        *)
C2_ExecutedOnlyWarns ==
    [][\A n \in DOMAIN target :
          /\ (call'.op = "execute" /\ RealTarget(call') = n) =>
                IF target[n].completed
                THEN call'.out = Ret(AlreadyExecuted) /\ target' = target /\ hist' = hist
                ELSE (call'.out = Ret(None)) <=> target'[n].completed
          /\ (target[n].completed /\ ~target'[n].completed) => call'.op \in Resets
          /\ (~target[n].completed /\ target'[n].completed) => call'.op = "execute"]_vars

\* execute() was called on an executed target and warned
C2_Witness ==
    /\ call.op = "execute"
    /\ call.out = Ret(AlreadyExecuted)
    /\ target[RealTarget(call)].completed

(* C3 as stated: two calls of get_or_create_project in a row on a target,   *)
(* whatever the architecture hints, return the identical instance.          *)
C3_SameInstance ==
    [][(/\ call.op = "get_or_create_project" /\ call.out.kind = "return"
        /\ call'.op = "get_or_create_project" /\ call'.out.kind = "return"
        /\ call'.target = call.target)
          => call'.out.value = call.out.value]_vars

(* C3 as amended: get_or_create_project returns the cached instance of the  *)
(* concrete target the call lands on (for an alias, the variant of the      *)
(* architecture asked for), so calls landing on the same concrete target    *)
(* return the identical instance; the constructor of a target runs at most  *)
(* once between resets, and only reset() replaces a cached instance.        *)
C3_InstanceKept ==
    [][\A n \in DOMAIN target :
          /\ hist'.constructed[n] <= 1
          /\ (target[n].project # None /\ target'[n].project # target[n].project)
                => (call'.op \in Resets /\ target'[n].project = None)
          /\ (call'.op = "get_or_create_project" /\ call'.out.kind = "return" /\ RealTarget(call') = n)
                => /\ call'.out.value = target'[n].project
                   /\ target[n].project # None => call'.out.value = target[n].project]_vars

\* get_or_create_project returned the instance of a target that had been built with it
C3_Witness ==
    /\ call.op = "get_or_create_project"
    /\ call.out.kind = "return"
    /\ target[RealTarget(call)].completed
    /\ call.out.value = target[RealTarget(call)].project

(* C4: until get_all_chosen_targets has resolved a plan, every call of      *)
(* get_or_create_project, checkSystemDeps or run_tests fails with an error, *)
(* no target holds a project instance and no constructor has run.           *)
C4_GuardedUntilResolved ==
    ~hist.resolved =>
        /\ call.op \in Creating => call.out.kind = "raise"
        /\ \A n \in DOMAIN target :
              /\ target[n].project = None
              /\ hist.instances[n] = 0
              /\ hist.constructed[n] = 0

\* after a run that resolved no plan, run_tests was refused by the instantiation guard
C4_Witness ==
    /\ ~hist.resolved
    /\ hist.runs = 1
    /\ call.op = "run_tests"
    /\ call.out.exc = "RuntimeError"

----------------------------------------------------------------------------
(* C1: in the plan of get_all_targets, whenever a and b are both planned   *)
(* and b transitively depends on a, a is positioned strictly before b.     *)
C1_DependenciesFirst ==
    Planned =>
        \A a \in Range(call.result), b \in Range(call.result) :
            a \in TransitiveDeps(b) => Before(a, b, call.result)

(* C5: with skipSdk set and dependencies being added for the one explicit  *)
(* target t, for every chain t -> d1 -> d2 with d1 SDK-class the plan holds *)
(* neither d1 nor d2, unless d2 is reachable from t avoiding SDK targets.   *)
C5_SdkChainPruned ==
    (Planned /\ config.skipSdk /\ Len(call.explicit) = 1) =>
        LET t == call.explicit[1]
        IN (config.includeDependencies \/ projectClass[t].dependenciesMustBeBuilt) =>
            \A d1 \in DepSets[t] : \A d2 \in DepSets[d1] :
                projectClass[d1].is_sdk_target =>
                    /\ ~InSeq(d1, call.result)
                    /\ (d2 \notin NonSdkDeps(t) => ~InSeq(d2, call.result))

(* C6: for an explicit target t whose project type has                      *)
(* dependenciesMustBeBuilt, with includeDependencies and skipSdk unset, the *)
(* plan of get_all_targets([t]) holds t and every transitive dependency.    *)
C6_MustBuildClosure ==
    (Planned /\ Len(call.explicit) = 1 /\ ~config.includeDependencies /\ ~config.skipSdk) =>
        LET t == call.explicit[1]
        IN projectClass[t].dependenciesMustBeBuilt =>
            ({t} \cup TransitiveDeps(t)) \subseteq Range(call.result)

\* a must-build target with a dependency that is transitive only is planned
C6_Witness ==
    /\ Planned /\ Len(call.explicit) = 1 /\ ~config.includeDependencies /\ ~config.skipSdk
    /\ projectClass[call.explicit[1]].dependenciesMustBeBuilt
    /\ \E d \in TransitiveDeps(call.explicit[1]) :
          d \notin DepSets[call.explicit[1]] /\ InSeq(d, call.result)

(* C7: the plan holds every target of the expanded list exactly once and   *)
(* nothing else; requesting [X, Y] with Y depending on X and               *)
(* includeDependencies set plans X exactly once, before Y.                 *)
C7_ExactlyOnce ==
    Planned =>
        /\ \A x \in Range(call.expanded) : Count(x, call.result) = 1
        /\ Range(call.result) = Range(call.expanded)
        /\ (config.includeDependencies /\ Len(call.explicit) = 2
              /\ call.explicit[1] \in TransitiveDeps(call.explicit[2]))
            => (Count(call.explicit[1], call.result) = 1
                  /\ Before(call.explicit[1], call.explicit[2], call.result))

\* [X, Y] was requested with dependencies: X entered the expanded list twice
C7_Witness ==
    /\ Planned /\ config.includeDependencies /\ Len(call.explicit) = 2
    /\ call.explicit[1] \in TransitiveDeps(call.explicit[2])
    /\ Count(call.explicit[1], call.expanded) = 2
    /\ Count(call.explicit[1], call.result) = 1


\* the variants of an alias registered for architecture a
VariantsFor(alias, a) ==
    {v \in Range(allTargets[alias].derived_targets) : allTargets[v].target_arch = a}

\* a call of get_target or get_real_target on an alias
Resolving ==
    /\ call.op \in {"get_target", "get_real_target"}
    /\ call.target \in DOMAIN allTargets
    /\ IsAlias(allTargets, call.target)

(* C8: on an alias whose project type declares a default architecture,      *)
(* get_target and get_real_target return a variant of the default           *)
(* architecture when no architecture is passed and a variant of             *)
(* architecture A when A is passed, whenever such a variant is registered.  *)
C8_VariantOfArchitecture ==
    (Resolving /\ projectClass[call.target].default_architecture # None) =>
        LET want == IF call.arch = None THEN projectClass[call.target].default_architecture
                    ELSE call.arch
        IN VariantsFor(call.target, want) # {} =>
              (call.out.kind = "return" /\ call.out.value \in VariantsFor(call.target, want))

\* get_target without an architecture returned the second variant, the default one
C8_Witness ==
    /\ Resolving /\ call.op = "get_target" /\ call.arch = None
    /\ Len(allTargets[call.target].derived_targets) = 2
    /\ call.out.kind = "return"
    /\ call.out.value = allTargets[call.target].derived_targets[2]

(* C9: resolving an alias for an architecture without a registered variant *)
(* raises a LookupError whose message holds the architecture and the name   *)
(* of the alias; resolving without an architecture when the project type    *)
(* declares no default raises as well.                                      *)
C9_LookupErrorNamesBoth ==
    Resolving =>
        LET want == IF call.arch = None THEN projectClass[call.target].default_architecture
                    ELSE call.arch
        IN /\ want = None => call.out.kind = "raise"
           /\ (want # None /\ VariantsFor(call.target, want) = {}) =>
                 /\ call.out.kind = "raise"
                 /\ call.out.exc = "LookupError"
                 /\ Contains(call.out.msg, ArchStr(want))
                 /\ Contains(call.out.msg, call.target)

\* the input targets of topologicalSort that lie on a dependency cycle or reach one
OnCycle == {n \in DOMAIN projectClass : n \in TransitiveDeps(n)}

(* C10: when the dependencies of the targets given to topologicalSort       *)
(* contain a cycle, the generator ends with the cyclic-dependency failure   *)
(* and every target on the cycle is among the unresolved ones it lists.     *)
C10_CycleReported ==
    (/\ topo.pc = "done"
     /\ \E t \in Range(call.target) : ({t} \cup TransitiveDeps(t)) \cap OnCycle # {})
        => /\ call.out.kind = "raise"
           /\ call.out.exc = "AssertionError"
           /\ \A t \in Range(call.target) :
                 (({t} \cup TransitiveDeps(t)) \cap OnCycle) \subseteq DOMAIN topo.data

\* the waves yielded so far that hold name n
WavesOf(n) == {i \in 1..Len(topo.waves) : InSeq(n, topo.waves[i])}

(* C11: for an acyclic dependency graph topologicalSort ends without a      *)
(* failure, every target passed in and every dependency is in exactly one   *)
(* wave, and every dependency of a target is in a strictly earlier wave     *)
(* (so no two targets of one wave depend on each other).                    *)
C11_WavesOfAcyclic ==
    (topo.pc = "done" /\ OnCycle = {}) =>
        /\ call.out.kind = "return"
        /\ \A t \in Range(call.target) : \A n \in {t} \cup TransitiveDeps(t) :
              /\ Cardinality(WavesOf(n)) = 1
              /\ \A d \in TransitiveDeps(n) : \A i \in WavesOf(n), j \in WavesOf(d) : j < i

IsRun(n) == StartsWith(n, "run")

IsDiskImage(n) == StartsWith(n, "disk-image")

(* C12: in a plan of get_all_targets a target whose name starts with "run"  *)
(* is positioned after every planned target whose name does not, a          *)
(* dependency being allowed before the target that depends on it.           *)
C12_RunLast ==
    Planned =>
        \A r \in Range(call.result), n \in Range(call.result) :
            (IsRun(r) /\ ~IsRun(n) /\ r \notin TransitiveDeps(n)) => Before(n, r, call.result)

(* C13: in a plan of get_all_targets a target whose name starts with        *)
(* "disk-image" is positioned after every planned target that starts with   *)
(* neither "disk-image" nor "run" and before every planned "run" target, a  *)
(* dependency being allowed before the target that depends on it.           *)
C13_DiskImageBeforeRun ==
    Planned =>
        \A d \in Range(call.result), n \in Range(call.result) :
            /\ (IsDiskImage(d) /\ ~IsDiskImage(n) /\ ~IsRun(n) /\ d \notin TransitiveDeps(n))
                  => Before(n, d, call.result)
            /\ (IsDiskImage(d) /\ IsRun(n) /\ n \notin TransitiveDeps(d))
                  => Before(d, n, call.result)

(* C14: addTarget under a name that is already registered fails and leaves *)
(* the registry as it is; the Target stored under a name is never replaced. *)
C14_NoSilentReplace ==
    [][/\ (call'.op = "addTarget" /\ call'.target \in DOMAIN allTargets)
            => (call'.out.kind = "raise" /\ allTargets' = allTargets)
       /\ \A n \in DOMAIN allTargets :
            n \in DOMAIN allTargets' /\ allTargets'[n] = allTargets[n]]_vars

\* the step is a call of run() that asks for a name that is not registered
AsksForUnknown(c) ==
    /\ c.op = "get_all_chosen_targets"
    /\ \E i \in 1..Len(c.target) : c.target[i] \notin DOMAIN allTargets

\* the registered targets with a dependency that is not registered, with that dependency
InvalidDependencies ==
    {td \in (DOMAIN allTargets) \X (DOMAIN projectClass) :
        InSeq(td[2], projectClass[td[1]].cached_deps) /\ td[2] \notin DOMAIN allTargets}

\* what a run() that ends in get_all_chosen_targets leaves behind: nothing is checked,
\* instantiated or executed and the instantiation guard is as it was
EndsUnresolved ==
    /\ run'.pc = "idle"
    /\ target' = target
    /\ hist'.instances = hist.instances /\ hist'.constructed = hist.constructed
    /\ guard' = guard
    /\ ~hist.resolved => guard'

\* the fatal error that lists the registered names
ListsValidNames(out) ==
    /\ out.kind = "raise" /\ out.exc = "SystemExit"
    /\ Contains(out.msg, "Valid choices are " \o Join(",", TargetNames(allTargets)))

Resolved == run.chosenTargets # <<>>

\* s is the start of t
IsPrefix(s, t) == Len(s) <= Len(t) /\ SubSeq(t, 1, Len(s)) = s

(* C17: in run() execute is called for a target only after checkSystemDeps  *)
(* has been called for every target of the plan, in plan order; a run that  *)
(* a checkSystemDeps call ended has called execute for no target and        *)
(* invoked no build.                                                        *)
C17_AllCheckedBeforeExecute ==
    /\ IsPrefix(run.checked, run.chosenTargets)
    /\ (run.pc = "execute" \/ run.executed # <<>> \/ run.built # <<>>)
          => run.checked = run.chosenTargets
    /\ run.failed = "checkSystemDeps" => (run.executed = <<>> /\ run.built = <<>>)

\* a run over a plan of two targets was ended by the check of the second one
C17_Witness ==
    /\ run.failed = "checkSystemDeps"
    /\ Len(run.chosenTargets) = 2
    /\ run.checked = run.chosenTargets
    /\ run.built = <<>>

(* C18 as stated: a run() without print_targets_only that returns has       *)
(* invoked the builds of the planned targets, in plan order.                *)
C18_BuildsEqualPlan ==
    (run.pc = "idle" /\ Resolved /\ run.failed = None /\ ~config.print_targets_only)
        => run.built = run.chosenTargets

(* C18 as amended: in a run() without print_targets_only execute is called  *)
(* for the planned targets one by one in plan order, and the builds invoked *)
(* are, in that order and once each, those of the targets the plan lands on *)
(* that were not executed already when run() was called; every build but    *)
(* the last one has completed.                                              *)
C18_BuildsInPlanOrder ==
    (Resolved /\ ~config.print_targets_only) =>
        /\ IsPrefix(run.executed, run.chosenTargets)
        /\ run.built =
              RemoveDuplicates(
                  SelectSeq([j \in 1..Len(run.executed) |-> Concrete(allTargets, projectClass, run.executed[j])],
                            LAMBDA n : n \notin run.before))
        /\ \A j \in 1..Len(run.built) :
              (j < Len(run.built) \/ run.failed = None) => target[run.built[j]].completed
        /\ (run.pc = "idle" /\ run.failed = None) => run.executed = run.chosenTargets

\* a run over a plan of two targets has built both, in plan order
C18_Witness ==
    /\ run.pc = "idle" /\ run.failed = None /\ ~config.print_targets_only
    /\ Len(run.chosenTargets) = 2
    /\ run.built = run.chosenTargets

(* C19: in a run() with print_targets_only execute is called for no target *)
(* and no build is invoked: every planned target is reported with its name  *)
(* and the names of its dependencies, and the targets that were not         *)
(* executed when run() was called are not executed when it returns.         *)
C19_DryRunBuildsNothing ==
    (Resolved /\ config.print_targets_only) =>
        /\ run.executed = <<>> /\ run.built = <<>>
        /\ \A n \in DOMAIN target : target[n].completed <=> n \in run.before
        /\ call.op = "report" =>
              /\ call.target \in Range(run.chosenTargets)
              /\ call.out = Ret(Report(projectClass, call.target))
              /\ Contains(call.out.value, "Will build target " \o call.target)
              /\ \A d \in TransitiveDeps(call.target) :
                    Contains(call.out.value, "'" \o d \o "'")
        /\ call.op \in {"get_all_chosen_targets", "checkSystemDeps", "report"}
        /\ (run.pc = "idle" /\ run.failed = None) => call.op = "report"

\* a dry run over a plan of two targets has returned
C19_Witness ==
    /\ config.print_targets_only
    /\ run.pc = "idle" /\ run.failed = None
    /\ Len(run.chosenTargets) = 2
    /\ call.op = "report" /\ call.target = run.chosenTargets[2]
    /\ TransitiveDeps(call.target) # {}

(* C20: when the build of a target fails in run(), the exception of         *)
(* project.process() leaves execute and run() as it is; the run is over, no *)
(* later target of the plan is executed and the build of the failing target *)
(* was invoked once.                                                        *)
C20_BuildFailureEndsRun ==
    [][(run.pc = "execute" /\ call'.out.kind = "raise") =>
          /\ call' = Called("execute", NextPlanned(run), Raise("ProjectError", "process"))
          /\ run'.pc = "idle" /\ run'.failed = "execute"
          /\ run'.executed = SubSeq(run.chosenTargets, 1, run.i)
          /\ Count(Concrete(allTargets, projectClass, NextPlanned(run)), run'.built) = 1
          /\ target' = target]_vars

\* the build of the first of two planned targets failed
C20_Witness ==
    /\ run.failed = "execute"
    /\ Len(run.chosenTargets) = 2
    /\ run.executed = <<run.chosenTargets[1]>>
    /\ call.out = Raise("ProjectError", "process")

----------------------------------------------------------------------------
\* the call c was a checkSystemDeps that went through project.checkSystemDependencies()
\* of the concrete target n (tg: the Target fields when the call was made)
ChecksHost(c, tg, n) ==
    /\ c.op = "checkSystemDeps"
    /\ RealTarget(c) = n
    /\ \/ c.out = Raise("ProjectError", "checkSystemDependencies")
       \/ c.out = Ret(None) /\ ~tg[n].completed

(* C22: a checkSystemDeps call on a target that has executed changes        *)
(* nothing and reaches neither the project nor its system-dependency check, *)
(* and two checkSystemDeps calls in a row on a target do not both run the   *)
(* project's checkSystemDependencies().                                     *)
C22_CheckedOnce ==
    [][\A n \in DOMAIN target :
          /\ (call'.op = "checkSystemDeps" /\ RealTarget(call') = n /\ target[n].completed)
                => (call'.out = Ret(None) /\ target' = target /\ hist' = hist)
          /\ ~(ChecksHost(call, target, n) /\ ChecksHost(call', target, n))]_vars

(* C23 as stated: of two run_tests() calls in a row on a target the later   *)
(* one only warns and skips; the test logic runs once, on the first call.   *)
C23_TestsOnFirstCall ==
    [][(call.op = "run_tests" /\ call'.op = "run_tests" /\ call'.target = call.target)
          => (call'.out = Ret(AlreadyExecuted) /\ target' = target)]_vars

(* C23 as amended: a run_tests() call on a target whose tests have returned *)
(* (no reset since) only warns and changes nothing; otherwise it runs the   *)
(* test logic, whether or not the target has executed, and marks the tests  *)
(* as run exactly when they return.  run_tests never changes an executed    *)
(* flag and execute never changes a tests_run flag.                         *)
C23_TestedOnlyWarns ==
    [][\A n \in DOMAIN target :
          /\ (call'.op = "run_tests" /\ RealTarget(call') = n) =>
                IF target[n].tests_have_run
                THEN call'.out = Ret(AlreadyExecuted) /\ target' = target /\ hist' = hist
                ELSE /\ (call'.out = Ret(None)) <=> target'[n].tests_have_run
                     /\ call'.out # Ret(AlreadyExecuted)
          /\ (~target[n].tests_have_run /\ target'[n].tests_have_run) => call'.op = "run_tests"
          /\ call'.op = "run_tests" => target'[n].completed = target[n].completed
          /\ call'.op = "execute" => target'[n].tests_have_run = target[n].tests_have_run]_vars

\* run_tests() was called again on a target that was tested without having executed
C23_Witness ==
    /\ call.op = "run_tests"
    /\ call.out = Ret(AlreadyExecuted)
    /\ target[RealTarget(call)].tests_have_run
    /\ ~target[RealTarget(call)].completed

(* C24: a step other than reset() (get_or_create_project, checkSystemDeps,  *)
(* execute, run_tests, or a step of run()) never clears the executed flag   *)
(* or the tests_run flag of a target.                                       *)
C24_FlagsMonotonic ==
    [][call'.op \notin Resets =>
          \A n \in DOMAIN target :
              /\ target[n].completed => target'[n].completed
              /\ target[n].tests_have_run => target'[n].tests_have_run]_vars

\* a run reached the check of a target that had executed and had its tests run
C24_Witness ==
    /\ call.op = "checkSystemDeps"
    /\ run.checked # <<>>
    /\ target[RealTarget(call)].completed
    /\ target[RealTarget(call)].tests_have_run

\* the call c was a reset of the Target object registered as m
ResetOf(c, m) == c.op = "reset_all" \/ (c.op = "reset" /\ c.target = m)

\* the call c returned a project instance that did not exist before the step
ReturnsFreshInstance(c) ==
    /\ c.out.kind = "return"
    /\ \E n \in DOMAIN target :
          /\ hist'.instances[n] = hist.instances[n] + 1
          /\ c.out.value = Instance(n, hist'.instances[n])
          /\ target'[n].project = c.out.value

(* C25 as stated: reset() leaves the Target object it is called on with its *)
(* four fields cleared, and TargetManager.reset() leaves every registered   *)
(* Target so; a get_or_create_project that follows the reset of a Target    *)
(* and returns, returns a new instance, and an execute that follows the     *)
(* reset of a Target invokes the build.                                     *)
C25_ResetStartsOver ==
    [][/\ call'.op = "reset" => target' = [target EXCEPT ![call'.target] = FreshTarget]
       /\ call'.op = "reset_all" => \A n \in DOMAIN target : target'[n] = FreshTarget
       /\ (ResetOf(call, call'.target) /\ call'.op = "get_or_create_project" /\ call'.out.kind = "return")
             => ReturnsFreshInstance(call')
       /\ (ResetOf(call, call'.target) /\ call'.op = "execute")
             => BuildInvoked(call'.out)]_vars

(* C25 as amended: reset() leaves the Target object it is called on with    *)
(* its four fields cleared (the variants of an alias are other objects and  *)
(* keep their state), and TargetManager.reset() leaves every registered     *)
(* Target so.  On a target that is not an alias, a get_or_create_project    *)
(* that follows the reset and returns, returns a new instance; an execute   *)
(* that follows the reset at once fails the assertion on the missing        *)
(* project; an execute on a target that is not executed and holds a project *)
(* invokes the build.                                                       *)
C25_ResetClears ==
    [][/\ call'.op = "reset" => target' = [target EXCEPT ![call'.target] = FreshTarget]
       /\ call'.op = "reset_all" => \A n \in DOMAIN target : target'[n] = FreshTarget
       /\ \A n \in DOMAIN target :
             /\ (/\ ResetOf(call, n) /\ ~IsAlias(allTargets, n)
                 /\ call'.op = "get_or_create_project" /\ call'.target = n /\ call'.out.kind = "return")
                   => ReturnsFreshInstance(call')
             /\ (ResetOf(call, n) /\ ~IsAlias(allTargets, n) /\ call'.op = "execute" /\ call'.target = n)
                   => (call'.out.exc = "AssertionError" /\ target' = target)
             /\ (/\ call'.op = "execute" /\ RealTarget(call') = n
                 /\ ~target[n].completed /\ target[n].project # None)
                   => BuildInvoked(call'.out)]_vars

\* a target that was reset holds its second project instance and was built with it
C25_Witness ==
    /\ call.op = "execute"
    /\ call.out = Ret(None)
    /\ hist.instances[RealTarget(call)] = 2
    /\ target[RealTarget(call)].project = Instance(RealTarget(call), 2)
    /\ target[RealTarget(call)].completed

(* C26: get_dependencies of a target returns exactly the targets its project *)
(* type declares as direct dependencies, and none of their dependencies.     *)
C26_DirectDependenciesOnly ==
    call.op = "get_dependencies" =>
        Range(call.out) = Range(DirectDependencies(DepSeqs, call.target))

(* C27: what get_target returns is never an alias: for the name of a         *)
(* registered target that is not an alias it is that target, for the name    *)
(* of an alias it is one of the variants registered for that alias.          *)
C27_NeverAnAlias ==
    (call.op = "get_target" /\ call.out.kind = "return") =>
        /\ call.out.value \in DOMAIN allTargets
        /\ ~IsAlias(allTargets, call.out.value)
        /\ IF IsAlias(allTargets, call.target)
           THEN call.out.value \in Range(allTargets[call.target].derived_targets)
           ELSE call.out.value = call.target

\* get_target on the alias returned one of its two variants
C27_Witness ==
    /\ call.op = "get_target" /\ call.out.kind = "return"
    /\ IsAlias(allTargets, call.target)
    /\ Len(allTargets[call.target].derived_targets) = 2
    /\ call.out.value \in Range(allTargets[call.target].derived_targets)

(* C28: with includeDependencies set and skipSdk unset the plan of          *)
(* get_all_targets(explicit) is, as a set, the explicit targets and every    *)
(* transitive dependency of an explicit target, and nothing else.            *)
C28_FullClosure ==
    (Planned /\ config.includeDependencies /\ ~config.skipSdk) =>
        Range(call.result) =
            Range(call.explicit) \cup UNION {TransitiveDeps(t) : t \in Range(call.explicit)}

\* two explicit targets were planned with a dependency neither of them declares directly
C28_Witness ==
    /\ Planned /\ config.includeDependencies /\ ~config.skipSdk
    /\ Len(call.explicit) = 2
    /\ \E d \in Range(call.result) :
          /\ d \notin Range(call.explicit)
          /\ \A t \in Range(call.explicit) : d \notin DepSets[t]

(* C29: with includeDependencies unset every explicit target is in the plan *)
(* (an SDK-class one under skipSdk too); the plan holds nothing but the     *)
(* explicit targets, the direct dependencies of the explicit targets of an  *)
(* alias type and the transitive dependencies of those with                 *)
(* dependenciesMustBeBuilt; an explicit target of neither kind adds         *)
(* nothing, one of an alias type (not dependenciesMustBeBuilt) adds its     *)
(* direct dependencies, less the SDK-class ones under skipSdk.              *)
C29_ShallowExpansion ==
    (Planned /\ ~config.includeDependencies) =>
        LET explicit == Range(call.explicit)
            must == {t \in explicit : projectClass[t].dependenciesMustBeBuilt}
            alias == {t \in explicit \ must : projectClass[t].isAlias}
        IN /\ explicit \subseteq Range(call.result)
           /\ Range(call.result) \subseteq
                 explicit \cup UNION {DepSets[t] : t \in alias} \cup UNION {TransitiveDeps(t) : t \in must}
           /\ \A t \in alias : \A d \in DepSets[t] :
                 ~(config.skipSdk /\ projectClass[d].is_sdk_target) => InSeq(d, call.result)

\* an alias-type target was planned with its direct dependency and without the
\* dependency of that dependency
C29_Witness ==
    /\ Planned /\ ~config.includeDependencies /\ Len(call.explicit) = 1
    /\ projectClass[call.explicit[1]].isAlias
    /\ \E d1 \in DepSets[call.explicit[1]] : \E d2 \in DepSets[d1] :
          /\ InSeq(d1, call.result)
          /\ ~InSeq(d2, call.result)

\* the operations a MultiArchTargetAlias forwards to a variant
Forwarded == {"get_or_create_project", "checkSystemDeps", "execute", "run_tests"}

(* C30: the Target fields of an alias stay in their initial state and no    *)
(* project is ever constructed for it; a get_or_create_project,             *)
(* checkSystemDeps, execute or run_tests call on an alias changes the       *)
(* targets, and returns or raises, exactly as the same call on the variant  *)
(* get_real_target picks does (and changes nothing when get_real_target     *)
(* raises); the instance returned through the alias is the one that variant *)
(* holds.                                                                   *)
C30_AliasOnlyDispatches ==
    [][\A a \in DOMAIN allTargets : IsAlias(allTargets, a) =>
          /\ target'[a] = FreshTarget
          /\ hist'.instances[a] = 0 /\ hist'.constructed[a] = 0
          /\ (call'.op \in Forwarded /\ call'.target = a) =>
                LET r == GetRealTarget(allTargets, projectClass, a, call'.arch)
                IN IF r.kind = "raise"
                   THEN call'.out = r /\ target' = target /\ hist' = hist
                   ELSE /\ ~IsAlias(allTargets, r.value)
                        /\ \E ctorOk \in BOOLEAN, collabOk \in BOOLEAN :
                              After(target', hist', call'.out) =
                                  CASE call'.op = "get_or_create_project" ->
                                          GetOrCreateProject(target, hist, guard, r.value, ctorOk)
                                    [] call'.op = "checkSystemDeps" ->
                                          CheckSystemDeps(target, hist, guard, r.value, ctorOk, collabOk)
                                    [] call'.op = "execute" -> Execute(target, hist, r.value, collabOk)
                                    [] call'.op = "run_tests" ->
                                          RunTests(target, hist, guard, r.value, ctorOk, collabOk)
                        /\ (call'.op = "get_or_create_project" /\ call'.out.kind = "return")
                              => call'.out.value = target'[r.value].project]_vars

\* execute() on the alias built its default variant with the instance that
\* get_or_create_project on the variant had created
C30_Witness ==
    /\ call.op = "execute" /\ call.target \in DOMAIN allTargets /\ IsAlias(allTargets, call.target)
    /\ call.out = Ret(None)
    /\ target[call.target] = FreshTarget
    /\ target[RealTarget(call)].completed
    /\ target[RealTarget(call)].project = Instance(RealTarget(call), 1)

(* C21: outside the setEnv block of a checkSystemDeps, execute or run_tests *)
(* call (before the call, and after it returned or failed) the environment *)
(* is the one the process started with; inside the block PATH is the tools *)
(* path of the configuration, and CLANG_FORCE_COLOR_DIAGNOSTICS is "always" *)
(* for execute and run_tests when colour diagnostics are enabled and has    *)
(* its prior value otherwise.                                               *)
C21_OverlayScoped ==
    /\ env.pc = "idle" => env.environ = env.atStart
    /\ env.pc = "inside" =>
          /\ env.environ["PATH"] = config.dollarPathWithOtherTools
          /\ env.environ["CLANG_FORCE_COLOR_DIAGNOSTICS"] =
                IF env.op # "checkSystemDeps" /\ config.clang_colour_diags
                THEN "always" ELSE env.atStart["CLANG_FORCE_COLOR_DIAGNOSTICS"]

\* a build that ran with the colour variable overlaid has failed, and the variable,
\* which was not set before, is not set again
C21_Witness ==
    /\ env.pc = "idle"
    /\ call.op = "execute" /\ call.out = Raise("ProjectError", "process")
    /\ config.clang_colour_diags
    /\ env.atStart["CLANG_FORCE_COLOR_DIAGNOSTICS"] = None
    /\ env.environ["CLANG_FORCE_COLOR_DIAGNOSTICS"] = None

\* the entries of the plan of the run that land on the concrete target v
LandingOn(v) ==
    {j \in 1..Len(run.chosenTargets) : Concrete(allTargets, projectClass, run.chosenTargets[j]) = v}

(* C31: in a run() the build of a target is invoked at most once, however   *)
(* many entries of the plan land on it (an alias next to the variant it     *)
(* resolves to); the execute of a planned entry whose target has executed   *)
(* only warns, changes nothing, and run() goes on with the next entry or    *)
(* returns after the last one.                                              *)
C31_OverlapBuiltOnce ==
    [][/\ \A v \in DOMAIN target : Count(v, run'.built) <= 1
       /\ (run.pc = "execute" /\ ~config.print_targets_only
             /\ target[Concrete(allTargets, projectClass, NextPlanned(run))].completed)
          => /\ call' = Called("execute", NextPlanned(run), Ret(AlreadyExecuted))
             /\ target' = target
             /\ run'.built = run.built
             /\ run'.failed = None
             /\ IF run.i < Len(run.chosenTargets)
                THEN run'.pc = "execute" /\ run'.i = run.i + 1
                ELSE run'.pc = "idle"]_vars

\* a run whose plan held an alias and the variant it resolves to has returned: the
\* variant was built once, by the first of the two entries
C31_Witness ==
    /\ run.pc = "idle" /\ run.failed = None /\ ~config.print_targets_only
    /\ run.executed = run.chosenTargets
    /\ \E v \in DOMAIN target :
          /\ Cardinality(LandingOn(v)) = 2
          /\ v \notin run.before
          /\ Count(v, run.built) = 1
          /\ target[v].completed

\* x and y are ordered by neither dependency nor the "run" / "disk-image" name rules
Unordered(x, y) == ~Lt(projectClass, x, y) /\ ~Lt(projectClass, y, x)

(* C32: two targets of the expanded list that neither dependency nor the    *)
(* name rules order stand in the plan in the order of their first           *)
(* occurrences in the expanded list.                                        *)
C32_TiesKeepOrder ==
    Planned =>
        \A x, y \in Range(call.expanded) :
            (x # y /\ Unordered(x, y) /\ IndexOf(x, call.expanded) < IndexOf(y, call.expanded))
                => Before(x, y, call.result)

(* C33: over an acyclic catalog __lt__ is a strict weak ordering: for the   *)
(* pair x < y compared and any third target z, x < x never holds, x < y and *)
(* y < x never both hold, x < y and y < z give x < z, and when x, y and     *)
(* y, z are unordered so are x, z.                                          *)
C33_StrictWeakOrdering ==
    call.op = "__lt__" =>
        LET x == call.self
            y == call.other
        IN /\ x = y => ~call.out
           /\ call.out => ~Lt(projectClass, y, x)
           /\ \A z \in DOMAIN projectClass :
                 /\ (call.out /\ Lt(projectClass, y, z)) => Lt(projectClass, x, z)
                 /\ (Unordered(x, y) /\ Unordered(y, z)) => Unordered(x, z)

\* the assertion of Target.execute on the project instance failed
ShouldHaveBeenInitialized ==
    Raise("AssertionError", "Should have been initialized in checkSystemDeps()")

(* C34: while run() is in its execute loop, every planned target that is    *)
(* still to be executed and has not executed holds a project instance       *)
(* (aliases taken to their variant), and no execute of run() fails the      *)
(* assertion on the project instance.                                       *)
C34_InitializedByCheck ==
    /\ run.pc = "execute" =>
          \A j \in run.i..Len(run.chosenTargets) :
              LET v == Concrete(allTargets, projectClass, run.chosenTargets[j])
              IN /\ v \in DOMAIN target
                 /\ ~target[v].completed => target[v].project # None
    /\ (run.executed # <<>> /\ call.op = "execute") => call.out # ShouldHaveBeenInitialized

\* run() built, through the alias, a variant that had been reset after an earlier
\* run: its second project instance was there
C34_Witness ==
    /\ run.executed # <<>>
    /\ call.op = "execute" /\ call.out = Ret(None)
    /\ IsAlias(allTargets, call.target)
    /\ target[RealTarget(call)].project = Instance(RealTarget(call), 2)
    /\ target[RealTarget(call)].completed

(* C35: an execute whose project.process() raises leaves the target not     *)
(* executed and with its project instance, and an execute that follows on   *)
(* the same target invokes the build again; the executed flag is set only   *)
(* by an execute whose build returned.  A run_tests whose project.run_tests() *)
(* raises leaves the tests_run flag unset, and the flag is set only by a     *)
(* run_tests whose tests returned.                                           *)
C35_FlagOnlyAfterSuccess ==
    [][\A n \in DOMAIN target :
          /\ (call'.op = "execute" /\ RealTarget(call') = n /\ call'.out = Raise("ProjectError", "process"))
                => /\ ~target'[n].completed
                   /\ target'[n].project # None /\ target'[n].project = target[n].project
          /\ (/\ call.op = "execute" /\ RealTarget(call) = n /\ call.out = Raise("ProjectError", "process")
              /\ call'.op = "execute" /\ RealTarget(call') = n)
                => BuildInvoked(call'.out)
          /\ (~target[n].completed /\ target'[n].completed)
                => (call'.op = "execute" /\ call'.out = Ret(None))
          /\ (call'.op = "run_tests" /\ RealTarget(call') = n /\ call'.out = Raise("ProjectError", "run_tests"))
                => /\ ~target'[n].tests_have_run
                   /\ target'[n].project # None
          /\ (~target[n].tests_have_run /\ target'[n].tests_have_run)
                => (call'.op = "run_tests" /\ call'.out = Ret(None))]_vars

\* the build of a target has failed: it is not executed and holds its project instance
C35_Witness ==
    /\ call.op = "execute"
    /\ call.out = Raise("ProjectError", "process")
    /\ ~target[RealTarget(call)].completed
    /\ target[RealTarget(call)].project # None

(* C36: since its last reset the project constructor of a target has run   *)
(* at most once, and it has run exactly when the creation-in-progress       *)
(* marker is set; only reset() clears the marker.  On a target whose        *)
(* constructor failed (marker set, no project instance) every               *)
(* get_or_create_project, checkSystemDeps and run_tests fails the           *)
(* assertion of create_project and changes nothing.                         *)
C36_ConstructedOnce ==
    [][\A n \in DOMAIN target :
          /\ hist'.constructed[n] <= 1
          /\ target'[n].creating_project <=> hist'.constructed[n] = 1
          /\ (target[n].creating_project /\ ~target'[n].creating_project) => call'.op \in Resets
          /\ (/\ target[n].creating_project /\ target[n].project = None
              /\ call'.op \in Creating /\ RealTarget(call') = n)
                => /\ call'.out = Raise("AssertionError", "")
                   /\ target' = target /\ hist' = hist]_vars

\* get_or_create_project on a target whose constructor had failed was refused
C36_Witness ==
    /\ call.op = "get_or_create_project"
    /\ call.out = Raise("AssertionError", "")
    /\ target[RealTarget(call)].creating_project
    /\ target[RealTarget(call)].project = None
    /\ hist.constructed[RealTarget(call)] = 1

(* C37: the instantiation guard is armed until a plan has been resolved;   *)
(* the only step that changes it is a get_all_chosen_targets that returns,  *)
(* which releases it; no reset and no later run arms it again, and once it  *)
(* is released no call is refused for instantiating before run().           *)
C37_GuardReleasedForGood ==
    [][/\ guard' <=> ~hist'.resolved
       /\ guard' # guard =>
             (guard /\ ~guard' /\ call'.op = "get_all_chosen_targets" /\ call'.out.kind = "return")
       /\ (call'.op = "get_all_chosen_targets" /\ call'.out.kind = "return") => ~guard'
       /\ (~guard /\ call'.op \in Creating) => call'.out.exc # "RuntimeError"]_vars

\* a run after the plan resolution has failed on an unknown name: the guard is
\* still released
C37_Witness ==
    /\ ~guard
    /\ hist.runs = 2
    /\ call.op = "get_all_chosen_targets"
    /\ call.out.kind = "raise"
    /\ Contains(call.out.msg, "does not exist")

\* the path of the directory an entry of the manifest lies in
KeyParent(k) ==
    LET comps == SplitPath(k)
    IN IF Len(comps) <= 2 THEN "." ELSE Join("/", SubSeq(comps, 1, Len(comps) - 1))

(* C38: in a manifest built from nothing by add_dir and add_file calls,    *)
(* every entry other than "." has the path of its parent directory as an   *)
(* entry too.                                                              *)
C38_ParentsPresent ==
    \A k \in DOMAIN mtree \ {"."} : KeyParent(k) \in DOMAIN mtree

\* add_file of a file one directory down has added the directory and "."
C38_Witness ==
    /\ call.op = "add_file"
    /\ call.out.kind = "return"
    /\ KeyOf(call) = "./a/b"
    /\ mtree["./a/b"].type # "dir"
    /\ {"./a", "."} \subseteq DOMAIN mtree

(* C39: add_dir on a path that has an entry leaves the whole manifest as   *)
(* it is; add_file that returns leaves at its path the entry made from its *)
(* arguments, whatever entry was there.                                    *)
C39_AddDirKeepsAddFileReplaces ==
    [][/\ (call'.op = "add_dir" /\ PathFmtOk(RStrip(call'.target)) /\ KeyOf(call') \in DOMAIN mtree)
             => mtree' = mtree
       /\ (call'.op = "add_file" /\ call'.out.kind = "return")
             => /\ KeyOf(call') \in DOMAIN mtree'
                /\ mtree'[KeyOf(call')] =
                      FileAttribs(call'.arch, InferModeString(call'.arch, FALSE), "root", "wheel")]_vars

\* add_dir was called on the path of a file entry, which is still a file entry
C39_Witness ==
    /\ call.op = "add_dir"
    /\ call.out.kind = "return"
    /\ KeyOf(call) \in DOMAIN mtree
    /\ mtree[KeyOf(call)].type # "dir"

====
